---- MODULE Spec2Model ----
(***************************************************************************)
(* Job orchestration and scheduling engine of DupliManager.                *)
(*                                                                         *)
(* The server is one asyncio event loop.  A request handler, a scheduler   *)
(* tick and one iteration of a progress stream each run without            *)
(* suspension, so each is one action.  A job's background task is created  *)
(* by asyncio.create_task and starts later; once it starts, every engine   *)
(* call it awaits (DuplicacyService.exec) is synchronous code with no      *)
(* suspension point, so the task keeps the loop until it has finished:     *)
(* the variable loop records the task that holds the loop and its position,*)
(* and no handler, stream or tick takes a step while loop.busy.            *)
(***************************************************************************)
EXTENDS Integers, Sequences, FiniteSets, TLC

\* ------------------------------------------------------------------ bounds
\* Instants told apart inside one minute of the wall clock.
TicksPerSlot == 2
\* Minutes of the day a schedule can name.
SlotsPerDay == 2
\* The last instant the wall clock reaches.
MaxClock == 6
\* The highest revision number of a snapshot.
MaxRev == 2

\* Number of start calls that may be accepted in a run (job ids 1..MaxJobs).
MaxJobs == 2
\* Longest outputLines of a job.
MaxLines == 2
\* Most paths of one kind (new, changed or deleted) in a change summary.
MaxPaths == 14

\* --------------------------------------------------------------- constants

Kinds == {"backup", "restore", "storage"}
RestoreKinds == {"restore", "storage"}
\* Resources that exist in the configuration store, and one id that does not.
Keys == {"r1"}
\* A second repository of the store, which is listed but never backed up.
OtherKey == "r2"
StoredRepos == Keys \cup {OtherKey}
UnknownKey == "zz"
AllKeys == Keys \cup {UnknownKey}
Obs == {"o1", "o2"}
JobIds == 1..MaxJobs

\* Kinds that the stream specification runs: the progress endpoints of
\* routers/backups.py and routers/restore.py.
StreamKinds == {"backup", "restore"}

\* Line endings readline() may return a line with ("" at end of file).
LineEnds == {"\n", "\r\n", ""}
\* The text of the n-th non-empty line the engine writes.
LineText(n) == CASE n = 1 -> "l1" [] n = 2 -> "l2" [] n = 3 -> "l3" [] OTHER -> "l4"
CancelLine == "cancel-requested"

VARIABLES
    active,        \* active_backups / active_restores / active_storage_restores
    completed,     \* completed_backups / completed_restores / completed_storage_restores
    processes,     \* active_*_processes: registered process handles
    cancelFlags,   \* active_restore_cancel_flags / active_storage_restore_cancel_flags
    tasks,         \* background tasks created and not yet started
    loop,          \* the background task that holds the event loop, if any
    nextId,        \* next job id (identifies the task a start call creates)
    observers,     \* progress streams: event_generator locals and position
    resp,          \* the response of the latest request
    recording,     \* whether responses are recorded in resp
    hist,          \* per job: what has happened to it (history)
    clock,         \* datetime.now(), in ticks since a Monday 00:00
    schedule,      \* the "schedule" object of the repository in the config store
    tickLog,       \* what the latest scheduler tick found and did (history)
    calc,          \* input and output of the function under evaluation
    login_failures,\* _login_failures: failed logins and lockouts per client key
    authLog,       \* the answer of the latest login request (history)
    repos,         \* ids of the repository records in the config store
    cache          \* remote_storage_list_cache: cache key -> cached listing

jobVars == <<active, completed, processes, cancelFlags, tasks, loop, nextId>>
timeVars == <<clock, schedule, tickLog>>
authVars == <<login_failures, authLog>>
vars == <<active, completed, processes, cancelFlags, tasks, loop, nextId,
          observers, resp, recording, hist, clock, schedule, tickLog, calc,
          login_failures, authLog, repos, cache>>

\* ------------------------------------------------------------ dictionaries

Put(m, k, v) == [x \in DOMAIN m \cup {k} |-> IF x = k THEN v ELSE m[x]]
Pop(m, k) == [x \in DOMAIN m \ {k} |-> m[x]]
Has(m, k) == k \in DOMAIN m
EmptyMap == [x \in {} |-> 0]

Idle == [busy |-> FALSE]
NoResp ==
    [op |-> "none", kind |-> "none", key |-> "none", code |-> 0, signal |-> FALSE,
     turn |-> 0]
\* The response of a request; turn alternates, so that two equal responses in
\* a row are still two responses.
Response(op, kind, key, code) ==
    IF recording
    THEN [op |-> op, kind |-> kind, key |-> key, code |-> code, signal |-> FALSE,
          turn |-> 1 - resp.turn]
    ELSE NoResp

ClosedObserver ==
    [phase |-> "closed", kind |-> "backup", key |-> "r1", sent_lines |-> 0,
     delivered |-> <<>>, seen |-> {}, last |-> "none"]

NewHist ==
    [state |-> "unused", kind |-> "none", key |-> "none", picked |-> 0,
     polledAfter |-> FALSE, discarded |-> FALSE, cancelOk |-> FALSE,
     terminated |-> FALSE, invalidated |-> 0]

\* ---------------------------------------------------------------- schedule

\* Python's None where an instant is expected.
None == -1

\* timedelta(days=7); SCHEDULE_WEEKDAYS has seven entries, "mon" is index 0.
DaysPerWeek == 7
Weekdays == 0 .. (DaysPerWeek - 1)
Mon == 0
Tue == 1
Sun == 6

\* Tokens of `days` that are no key of SCHEDULE_WEEKDAY_INDEX: one that is no
\* weekday at all, and the spelling "Tuesday".
InvalidDay == DaysPerWeek
LongTue == DaysPerWeek + 1
DayTokens == Weekdays \cup {InvalidDay, LongTue}

\* `token = str(d or "").strip().lower()[:3]`
day_token(d) == IF d = LongTue THEN Tue ELSE d

DayLen == SlotsPerDay * TicksPerSlot
WeekLen == DaysPerWeek * DayLen
Times == 0 .. (SlotsPerDay - 1)

\* _normalize_schedule_time falls back to "23:00": the last minute modelled.
DefaultTime == SlotsPerDay - 1

\* datetime.weekday(): instant 0 is a Monday 00:00:00.
weekday(now) == (now \div DayLen) % DaysPerWeek

\* `now.replace(hour=hour, minute=minute, second=0, microsecond=0)`
base_today(now, time) == (now \div DayLen) * DayLen + time * TicksPerSlot

Min(S) == CHOOSE x \in S : \A y \in S : x <= y

\* Faulty variant: a candidate equal to now is not pushed a week.
weekly_candidate_not_before(day, now, time) ==
    LET delta_days == (day + DaysPerWeek - weekday(now)) % DaysPerWeek
        candidate == base_today(now, time) + delta_days * DayLen
    IN IF candidate < now THEN candidate + WeekLen ELSE candidate

\* One pass of the loop over `days`: the candidate of one configured weekday.
weekly_candidate(day, now, time) ==
    LET delta_days == (day + DaysPerWeek - weekday(now)) % DaysPerWeek
        candidate == base_today(now, time) + delta_days * DayLen
    IN IF candidate <= now THEN candidate + WeekLen ELSE candidate

\* Faulty variant: an empty weekday list falls back to Sunday.
weekly_days_default_sun(days) ==
    IF days \cap Weekdays = {} THEN {Sun} ELSE days \cap Weekdays

\* `days = [d for d in days if d in SCHEDULE_WEEKDAY_INDEX]`, then
\* `if not days: days = ["mon"]`
weekly_days(days) ==
    IF days \cap Weekdays = {} THEN {Mon} ELSE days \cap Weekdays

\* Faulty variant: a time of day equal to now counts as still to come.
daily_candidate_not_before(now, time) ==
    LET candidate == base_today(now, time)
    IN IF candidate < now THEN candidate + DayLen ELSE candidate

\* Faulty variant: the run is always put on the next day.
daily_candidate_tomorrow(now, time) ==
    base_today(now, time) + DayLen

\* `candidate = base_today`, `if candidate <= now: candidate += timedelta(days=1)`
daily_candidate(now, time) ==
    LET candidate == base_today(now, time)
    IN IF candidate <= now THEN candidate + DayLen ELSE candidate

compute_next_run_for_schedule(sch, now) ==
    IF ~sch.enabled
    THEN None
    ELSE IF sch.type = "weekly"
    THEN Min({weekly_candidate(day, now, sch.time) : day \in weekly_days(sch.days)})
    ELSE daily_candidate(now, sch.time)

\* The fields of raw win, the run history comes from existing, and nextRunAt is
\* computed afresh from the wall clock (compute_next_run_for_schedule is
\* called without `now`, so it reads datetime.now()).
normalize_schedule_config(raw, existing, now) ==
    LET mode == IF raw.type \in {"daily", "weekly"} THEN raw.type ELSE "daily"
        normalized ==
            [enabled |-> raw.enabled, type |-> mode, time |-> raw.time,
             days |-> IF mode = "weekly"
                      THEN weekly_days({day_token(d) : d \in raw.days})
                      ELSE {},
             lastRunAt |-> existing.lastRunAt,
             lastRunStatus |-> existing.lastRunStatus,
             nextRunAt |-> None]
    IN [normalized EXCEPT !.nextRunAt = compute_next_run_for_schedule(normalized, now)]

\* normalize_schedule_config(None): what a repository is created with.
NoSchedule ==
    [enabled |-> FALSE, type |-> "daily", time |-> DefaultTime, days |-> {},
     lastRunAt |-> None, lastRunStatus |-> "none", nextRunAt |-> None]

\* A repositories file the server can find at start: a disabled schedule that
\* still carries a nextRunAt (written by hand or by an earlier release), which
\* is what the tick's "keep nextRunAt limpio si desactivado" is there for.
StaleDisabledSchedule == [NoSchedule EXCEPT !.nextRunAt = 0]
\* A stored nextRunAt that datetime.fromisoformat rejects.
Unparsable == -2
\* "schedules antiguos/incompletos": an enabled schedule stored without a
\* nextRunAt, or with one that is no ISO instant.
IncompleteSchedules ==
    {[NoSchedule EXCEPT !.enabled = TRUE, !.nextRunAt = v] : v \in {None, Unparsable}}
StoredSchedules == {NoSchedule, StaleDisabledSchedule} \cup IncompleteSchedules

\* _parse_iso_datetime: None for a missing value and for one that does not parse.
parse_iso_datetime(value) == IF value \in {None, Unparsable} THEN None ELSE value

\* What the tick found on entry (enabled, due, active: an active backup of the
\* repository, stored: the nextRunAt in the store) and what it did (calls:
\* start calls made, starts: start calls accepted, failed: a start call that
\* raised, changed: its `changed` flag).
NoTick == [ran |-> FALSE, due |-> FALSE, starts |-> 0, enabled |-> FALSE,
           changed |-> FALSE, active |-> FALSE, stored |-> "none", calls |-> 0,
           failed |-> FALSE]

\* The stored nextRunAt as a tick at the instant now finds it.
StoredNextRun(sch, now) ==
    IF parse_iso_datetime(sch.nextRunAt) = None THEN "unset"
    ELSE IF sch.nextRunAt <= now THEN "passed"
    ELSE "future"

NoCalc == [fn |-> "none"]

\* ------------------------------------------------------------- panel login

LOGIN_MAX_FAILED_ATTEMPTS == 5
\* Ten minutes each, counted in ticks of the wall clock.
LOGIN_FAIL_WINDOW_SECONDS == 2
LOGIN_LOCKOUT_SECONDS == 2

\* time.time(): seconds since the epoch, which lies before instant 0.
ClockEpoch == 1
time_time == ClockEpoch + clock

\* What `request.client.host` can be: an address, nothing, or the word the
\* code puts in place of nothing.
RawClientKeys == {"ip1", "", "unknown"}

\* `str(client_key or "unknown").strip() or "unknown"`
client_key_of(raw) == IF raw = "" THEN "unknown" ELSE raw

ClientKeys == {client_key_of(raw) : raw \in RawClientKeys}

\* `rec = _login_failures.get(key) or {}` with `float(rec.get(...) or 0)`
NoFailures == [firstFailedAt |-> 0, count |-> 0, blockedUntil |-> 0]
failure_record(failures, key) ==
    IF Has(failures, key) THEN failures[key] ELSE NoFailures

\* _cleanup_login_failures: the records it does not drop.
cleanup_login_failures(failures, now) ==
    LET stale(rec) ==
            LET expired_window ==
                    rec.firstFailedAt # 0
                    /\ (now - rec.firstFailedAt) > LOGIN_FAIL_WINDOW_SECONDS
                no_active_block == rec.blockedUntil <= now
            IN (rec.count <= 0 /\ no_active_block) \/ (expired_window /\ no_active_block)
    IN [k \in {x \in DOMAIN failures : ~stale(failures[x])} |-> failures[k]]

\* `max(1, int(blocked_until - now))`
retry_after(blocked_until, now) ==
    IF blocked_until - now < 1 THEN 1 ELSE blocked_until - now

\* get_login_lockout_status: its answer; the dictionary is left cleaned up.
get_login_lockout_status(failures, raw, now) ==
    LET rec == failure_record(cleanup_login_failures(failures, now), client_key_of(raw))
    IN IF rec.blockedUntil > now
       THEN [allowed |-> FALSE, retryAfterSeconds |-> retry_after(rec.blockedUntil, now)]
       ELSE [allowed |-> TRUE, retryAfterSeconds |-> 0]

\* Faulty variant: the lockout starts one failure late.
login_blocked_after(count) == count > LOGIN_MAX_FAILED_ATTEMPTS

\* `blocked = count >= LOGIN_MAX_FAILED_ATTEMPTS`
login_blocked(count) == count >= LOGIN_MAX_FAILED_ATTEMPTS

\* register_login_failure: the dictionary it leaves and the answer it gives.
register_login_failure(failures, raw, now) ==
    LET cleaned == cleanup_login_failures(failures, now)
        key == client_key_of(raw)
        rec == failure_record(cleaned, key)
    IN
    IF rec.blockedUntil > now
    THEN [failures |-> cleaned, blocked |-> TRUE,
          retryAfterSeconds |-> retry_after(rec.blockedUntil, now),
          count |-> rec.count]
    ELSE
    LET fresh == rec.firstFailedAt = 0
                 \/ (now - rec.firstFailedAt) > LOGIN_FAIL_WINDOW_SECONDS
        first_failed_at == IF fresh THEN now ELSE rec.firstFailedAt
        count == (IF fresh THEN 0 ELSE rec.count) + 1
        blocked == login_blocked(count)
    IN [failures |-> Put(cleaned, key,
                         [firstFailedAt |-> first_failed_at, count |-> count,
                          blockedUntil |-> IF blocked THEN now + LOGIN_LOCKOUT_SECONDS
                                           ELSE 0]),
        blocked |-> blocked,
        retryAfterSeconds |-> IF blocked THEN LOGIN_LOCKOUT_SECONDS ELSE 0,
        count |-> count]

\* clear_login_failures
clear_login_failures(failures, raw) == Pop(failures, client_key_of(raw))

\* History of the failed logins of one client key: when its failure window
\* began, how many wrong passwords it holds, and when the fifth of them came.
NoWindow == [start |-> 0, n |-> 0, lockedAt |-> 0]
WindowAfterFailure(w, now) ==
    LET n == IF w.n = 0 \/ (now - w.start) > LOGIN_FAIL_WINDOW_SECONDS
             THEN 1 ELSE w.n + 1
    IN [start |-> IF n = 1 THEN now ELSE w.start, n |-> n,
        lockedAt |-> IF n = LOGIN_MAX_FAILED_ATTEMPTS THEN now ELSE w.lockedAt]

NoAuth ==
    [op |-> "none", key |-> "none", code |-> 0, blocked |-> FALSE,
     retryAfterSeconds |-> 0, count |-> 0, turn |-> 0,
     win |-> [k \in ClientKeys |-> NoWindow]]

\* auth_login: the lockout check, the password check, and the bookkeeping of
\* the failure or the success.  requiresAuth is the panel's configuration,
\* password_ok what verify_panel_password returns.
auth_login(raw, password_ok, requiresAuth) ==
    LET key == client_key_of(raw)
        now == time_time
        lockout == get_login_lockout_status(login_failures, raw, now)
        failure == register_login_failure(login_failures, raw, now)
        answer == [authLog EXCEPT !.op = "login", !.key = key, !.blocked = FALSE,
                                  !.retryAfterSeconds = 0, !.count = 0,
                                  !.turn = 1 - authLog.turn]
    IN
    /\ ~loop.busy
    /\ IF ~requiresAuth
       THEN /\ login_failures' = login_failures
            /\ authLog' = [answer EXCEPT !.op = "open", !.code = 200]
       ELSE IF ~lockout.allowed
       THEN /\ login_failures' = cleanup_login_failures(login_failures, now)
            /\ authLog' = [answer EXCEPT !.op = "locked", !.code = 429,
                              !.retryAfterSeconds = lockout.retryAfterSeconds]
       ELSE IF ~password_ok
       THEN /\ login_failures' = failure.failures
            /\ authLog' = [answer EXCEPT
                              !.op = "failure",
                              !.code = IF failure.blocked THEN 429 ELSE 401,
                              !.blocked = failure.blocked,
                              !.retryAfterSeconds = failure.retryAfterSeconds,
                              !.count = failure.count,
                              !.win[key] = WindowAfterFailure(@, now)]
       ELSE /\ login_failures' =
                  clear_login_failures(cleanup_login_failures(login_failures, now), raw)
            /\ authLog' = [answer EXCEPT !.op = "success", !.code = 200,
                                         !.win[key] = NoWindow]
    /\ UNCHANGED <<jobVars, observers, resp, recording, hist, timeVars, calc, repos, cache>>


InitMaps ==
    /\ active = EmptyMap
    /\ completed = EmptyMap
    /\ processes = EmptyMap
    /\ cancelFlags = EmptyMap
    /\ tasks = {}
    /\ loop = Idle
    /\ nextId = 1
    /\ observers = [o \in Obs |-> ClosedObserver]
    /\ resp = NoResp
    /\ hist = [j \in JobIds |-> NewHist]
    /\ clock = 0
    /\ tickLog = NoTick
    /\ login_failures = EmptyMap
    /\ authLog = NoAuth
    /\ repos = StoredRepos
    /\ cache = EmptyMap

InitJobs ==
    /\ InitMaps
    /\ schedule = NoSchedule

Init ==
    /\ InitJobs
    /\ recording = TRUE
    /\ calc = NoCalc

InitStreams ==
    /\ InitJobs
    /\ recording = FALSE
    /\ calc = NoCalc

\* ------------------------------------------------------------------- start

\* `if not repo: raise HTTPException(404)` / `if not storage: raise 404`
\* Faulty variant: the start call does not look the key up.
StartNotFoundNever(kind, key) == FALSE

\* Backups and repository restores look the id up among the repository
\* records, storage restores among the storages.
StartNotFound(kind, key) ==
    IF kind = "storage" THEN key \notin Keys ELSE key \notin repos

\* Faulty variant: the start call does not look for a running job.
StartConflictNever(kind, key) == FALSE

\* Faulty variant: the start call looks for a registered process, not for an active entry.
StartConflictByProcess(kind, key) == Has(processes, <<kind, key>>)

\* `if req.repoId in active_backups: raise HTTPException(409)`
StartConflict(kind, key) == Has(active, <<kind, key>>)

\* The active entry a start call registers.
NewEntry(id, trigger) ==
    [id |-> id, trigger |-> trigger, lastOutput |-> "starting",
     outputLines |-> <<>>, cancelRequested |-> FALSE, backupSummary |-> "none"]

\* `trigger = (req.trigger or "manual").strip().lower()`, anything else is manual.
NormalizeTrigger(t) == IF t \in {"manual", "scheduler"} THEN t ELSE "manual"

\* Faulty variant: the start call leaves a stored result of the key in place.
start_completed_kept(kind, key) == completed

\* `completed_backups.pop(req.repoId, None)`
start_completed(kind, key) == Pop(completed, <<kind, key>>)

\* The accepted path of a start call: the active entry is registered, a stored
\* result of the key is dropped and the background task is created.
Accept(kind, key, trigger) ==
    /\ active' = Put(active, <<kind, key>>,
                     NewEntry(nextId, IF kind = "backup"
                                      THEN NormalizeTrigger(trigger)
                                      ELSE "manual"))
    /\ cancelFlags' = IF kind \in RestoreKinds
                      THEN Put(cancelFlags, <<kind, key>>, FALSE)
                      ELSE cancelFlags
    /\ completed' = start_completed(kind, key)
    /\ tasks' = tasks \cup {[kind |-> kind, key |-> key, id |-> nextId]}
    /\ nextId' = nextId + 1
    /\ hist' = [j \in JobIds |->
                  IF j = nextId
                  THEN [NewHist EXCEPT !.state = "pending", !.kind = kind,
                                       !.key = key]
                  ELSE IF Has(completed, <<kind, key>>)
                          /\ completed[<<kind, key>>].id = j
                  THEN [hist[j] EXCEPT !.discarded = TRUE]
                  ELSE hist[j]]
    /\ UNCHANGED <<processes, loop>>

\* start_backup, restore, restore_from_storage
Start(kind, key, trigger) ==
    /\ ~loop.busy
    /\ StartNotFound(kind, key) \/ StartConflict(kind, key) \/ nextId <= MaxJobs
    /\ IF StartNotFound(kind, key)
       THEN /\ resp' = Response("start", kind, key, 404)
            /\ UNCHANGED <<jobVars, hist>>
       ELSE IF StartConflict(kind, key)
       THEN /\ resp' = Response("start", kind, key, 409)
            /\ UNCHANGED <<jobVars, hist>>
       ELSE /\ Accept(kind, key, trigger)
            /\ resp' = Response("start", kind, key, 200)
    /\ UNCHANGED <<observers, recording, timeVars, calc, authVars, repos, cache>>

\* ------------------------------------------------------------------ cancel

\* `info = active_backups.get(req.repoId); if not info: raise 404`
CancelNoJob(kind, key) == ~Has(active, <<kind, key>>)

\* Faulty variant: cancel goes on to terminate without looking the process up.
CancelNoProcessNever(kind, key) == FALSE

\* `proc = active_backup_processes.get(req.repoId); if not proc: raise 409`
CancelNoProcess(kind, key) == ~Has(processes, <<kind, key>>)

\* The three assignments a cancel request makes to the active entry.
MarkCancelRequested(e) ==
    [e EXCEPT !.cancelRequested = TRUE, !.lastOutput = CancelLine,
              !.outputLines = Append(@, CancelLine)]

\* cancel_backup: the entry is marked only after both checks have passed.
CancelBackup(key, term) ==
    LET kk == <<"backup", key>> IN
    IF CancelNoJob("backup", key)
    THEN /\ resp' = Response("cancel", "backup", key, 404)
         /\ UNCHANGED <<active, cancelFlags, hist>>
    ELSE IF CancelNoProcess("backup", key)
    THEN /\ resp' = Response("cancel", "backup", key, 409)
         /\ UNCHANGED <<active, cancelFlags, hist>>
    ELSE /\ Len(active[kk].outputLines) < MaxLines
         /\ active' = [active EXCEPT ![kk] = MarkCancelRequested(@)]
         /\ resp' = [Response("cancel", "backup", key,
                              IF term = "failed" THEN 500 ELSE 200)
                       EXCEPT !.signal = recording /\ (term # "failed")]
         /\ hist' = [hist EXCEPT ![active[kk].id].cancelOk = (term # "failed"),
                                 ![active[kk].id].terminated = (term # "failed")]
         /\ UNCHANGED cancelFlags

\* cancel_restore, cancel_restore_from_storage: the entry is marked before the
\* process handle is looked up; _terminate_*_process swallows every error.
CancelRestore(kind, key) ==
    LET kk == <<kind, key>> IN
    IF CancelNoJob(kind, key)
    THEN /\ resp' = Response("cancel", kind, key, 404)
         /\ UNCHANGED <<active, cancelFlags, hist>>
    ELSE /\ Len(active[kk].outputLines) < MaxLines
         /\ active' = [active EXCEPT ![kk] = MarkCancelRequested(@)]
         /\ IF CancelNoProcess(kind, key)
            THEN /\ resp' = Response("cancel", kind, key, 409)
                 /\ UNCHANGED <<cancelFlags, hist>>
            ELSE /\ cancelFlags' = Put(cancelFlags, kk, TRUE)
                 /\ resp' = [Response("cancel", kind, key, 200) EXCEPT !.signal = recording]
                 /\ hist' = [hist EXCEPT ![active[kk].id].cancelOk = TRUE,
                                         ![active[kk].id].terminated = TRUE]

Cancel(kind, key, term) ==
    /\ ~loop.busy
    /\ IF kind = "backup" THEN CancelBackup(key, term) ELSE CancelRestore(kind, key)
    /\ UNCHANGED <<completed, processes, tasks, loop, nextId, observers, recording, timeVars, calc, authVars, repos, cache>>

\* ---------------------------------------------------------- change summary

\* `def _sample_paths(items, limit: int = 12)`
SampleLimit == 12

\* Entries of a file listing as _parse_file_list_output returns them: a path
\* and the raw line ("" where the item carries none).
FileItems ==
    {[path |-> "a", raw |-> "h1"], [path |-> "a", raw |-> "h2"],
     [path |-> "b", raw |-> "h2"], [path |-> "b", raw |-> ""],
     [path |-> "c", raw |-> "h3"], [path |-> "d/", raw |-> "h4"]}

\* The paths in the order sorted() gives them.
PathOrder == <<"a", "b", "c", "d/">>

\* More file paths than a sample holds, in the order sorted() gives them, for
\* the summaries of larger listings.
SamplePathOrder ==
    <<"p01", "p02", "p03", "p04", "p05", "p06", "p07", "p08",
      "p09", "p10", "p11", "p12", "p13", "p14", "p15", "p16">>
AllPathOrder == PathOrder \o SamplePathOrder

\* `path.endswith("/") or path.endswith("\\")`
EndsWithSeparator(path) == path \in {"d/"}

\* A listing names a path once.
Listings == {L \in SUBSET FileItems : \A i, j \in L : i.path = j.path => i = j}

Max(S) == CHOOSE x \in S : \A y \in S : x >= y

\* Faulty variant: directory entries get a signature like files.
build_file_signature_map_dirs(file_items) ==
    [p \in {i.path : i \in file_items} |->
        LET item == CHOOSE i \in file_items : i.path = p
        IN IF item.raw = "" THEN p ELSE item.raw]

\* _build_file_signature_map: path -> `item.get("raw") or path`, skipping the
\* items with no path and the directory entries.
build_file_signature_map(file_items) ==
    LET kept == {i \in file_items : ~(i.path = "" \/ EndsWithSeparator(i.path))}
    IN [p \in {i.path : i \in kept} |->
          LET item == CHOOSE i \in kept : i.path = p
          IN IF item.raw = "" THEN p ELSE item.raw]

\* sorted([...]) of a set of paths.
sorted(S) ==
    LET member(p) == p \in S IN SelectSeq(AllPathOrder, member)

\* Faulty variant: a sample holds one path more than the limit.
sample_paths_one_more(items) ==
    SubSeq(items, 1, IF Len(items) < SampleLimit + 1 THEN Len(items)
                     ELSE SampleLimit + 1)

\* _sample_paths
sample_paths(items) ==
    SubSeq(items, 1, IF Len(items) < SampleLimit THEN Len(items) ELSE SampleLimit)

new_paths(latest_map, prev_map) ==
    sorted({p \in DOMAIN latest_map : p \notin DOMAIN prev_map})

deleted_paths(latest_map, prev_map) ==
    sorted({p \in DOMAIN prev_map : p \notin DOMAIN latest_map})

changed_paths(latest_map, prev_map) ==
    sorted({p \in DOMAIN latest_map : p \in DOMAIN prev_map /\ latest_map[p] # prev_map[p]})

\* Faulty variant: the operation is never taken to have produced no revision.
no_new_revision_never(pre_latest_revision, latest_revision) == FALSE

\* `pre_latest_revision is not None and latest_revision == pre_latest_revision`
no_new_revision(pre_latest_revision, latest_revision) ==
    pre_latest_revision # None /\ latest_revision = pre_latest_revision

\* The revision the created one is compared with.
previous_revision(revisions, pre_latest_revision) ==
    LET latest_revision == Max(revisions) IN
    IF pre_latest_revision # None /\ pre_latest_revision \in revisions
       /\ pre_latest_revision # latest_revision
    THEN pre_latest_revision
    ELSE IF Cardinality(revisions) >= 2
    THEN Max(revisions \ {latest_revision})
    ELSE None

\* Faulty variant: deleted paths do not count as a change.
unchanged_without_deleted(new, changed, deleted) ==
    Len(new) + Len(changed) = 0

\* `(len(new_paths) + len(changed_paths) + len(deleted_paths)) == 0`
unchanged(new, changed, deleted) ==
    Len(new) + Len(changed) + Len(deleted) = 0

\* What every summary is reported as here; listCalls counts the list_files
\* calls the function has made.
NoSummary ==
    [ok |-> FALSE, unchanged |-> FALSE, new |-> 0, changed |-> 0, deleted |-> 0,
     newPaths |-> <<>>, changedPaths |-> <<>>, deletedPaths |-> <<>>,
     samples |-> [new |-> <<>>, changed |-> <<>>, deleted |-> <<>>],
     createdRevision |-> None, previousRevision |-> None,
     listed |-> FALSE, listCalls |-> 0]

\* Faulty variant: the previous listing is used even when the call failed.
prev_files_despite_failure(in, prev_revision) ==
    IF prev_revision # None THEN in.prevFiles ELSE {}

\* `prev_map = {}`, filled only `if previous_revision is not None` and
\* `if prev_files_result.get("code") == 0`.
prev_files(in, prev_revision) ==
    IF prev_revision # None /\ in.prevOk THEN in.prevFiles ELSE {}

\* build_backup_change_summary on the answers of the engine.
build_backup_change_summary(in) ==
    IF ~in.snapshotsOk \/ in.revisions = {}
    THEN NoSummary
    ELSE
    LET latest_revision == Max(in.revisions)
        prev_revision == previous_revision(in.revisions, in.pre_latest_revision)
    IN
    IF no_new_revision(in.pre_latest_revision, latest_revision)
    THEN [NoSummary EXCEPT !.ok = TRUE, !.unchanged = TRUE,
                           !.createdRevision = latest_revision,
                           !.previousRevision = prev_revision]
    ELSE IF ~in.latestOk
    THEN [NoSummary EXCEPT !.createdRevision = latest_revision, !.listCalls = 1]
    ELSE
    LET latest_map == build_file_signature_map(in.latestFiles)
        prev_map == build_file_signature_map(prev_files(in, prev_revision))
        new == new_paths(latest_map, prev_map)
        deleted == deleted_paths(latest_map, prev_map)
        changed == changed_paths(latest_map, prev_map)
    IN [ok |-> TRUE,
        unchanged |-> unchanged(new, changed, deleted),
        new |-> Len(new), changed |-> Len(changed), deleted |-> Len(deleted),
        newPaths |-> new, changedPaths |-> changed, deletedPaths |-> deleted,
        samples |-> [new |-> sample_paths(new), changed |-> sample_paths(changed),
                     deleted |-> sample_paths(deleted)],
        createdRevision |-> latest_revision, previousRevision |-> prev_revision,
        listed |-> TRUE,
        listCalls |-> IF prev_revision # None THEN 2 ELSE 1]

\* ------------------------------------------------------- background tasks

\* DuplicacyService.restore takes no on_process_start parameter, so the call
\* the restore tasks make raises TypeError before any process is spawned.
RestoreAcceptsProcessHook == FALSE

\* A line as readline() returns it: its text and its line ending.
RawLine(text, eol) == [text |-> text, eol |-> eol]

\* on_progress: `clean = (text or "").rstrip("\r\n")` drops the line ending.
Clean(raw) == raw.text

\* The locals of a task at its first step: `result = {"code": -1, "stdout": "",
\* "stderr": "Error no especificado"}`; outcome and summary record what the
\* preparation and the change summary came to.
Running(kind, key, id) ==
    [busy |-> TRUE, kind |-> kind, key |-> key, id |-> id, pc |-> "begin",
     code |-> -1, stderr |-> "unspecified", raised |-> FALSE,
     outcome |-> "none", summary |-> "none"]

LoopKey == <<loop.kind, loop.key>>

\* The event loop runs the first step of a created task.
TaskBegin(t) ==
    /\ ~loop.busy
    /\ t \in tasks
    /\ tasks' = tasks \ {t}
    /\ loop' = Running(t.kind, t.key, t.id)
    /\ hist' = [hist EXCEPT ![t.id].state = "running"]
    /\ UNCHANGED <<active, completed, processes, cancelFlags, nextId, observers, resp,
                   recording, timeVars, calc, authVars, repos, cache>>

PrepareOutcomes(kind) ==
    IF kind = "backup"
    THEN {"no_storage", "filters_error", "spawn_error", "spawned", "raise"}
    ELSE IF RestoreAcceptsProcessHook
    THEN {"spawn_error", "spawned", "raise"}
    ELSE {"raise"}

\* Faulty variant: exec lets the exception of Popen out.
exec_spawn_raises == [code |-> -1, stderr |-> "unspecified", raised |-> TRUE]

\* exec when Popen raises: `except Exception as e: return {"code": -1,
\* "stdout": "", "stderr": str(e)}`
exec_spawn_error == [code |-> -1, stderr |-> "spawn", raised |-> FALSE]

\* What `result` is after the preparation, for each way it can end.
PreparedResult(outcome) ==
    IF outcome = "spawn_error" THEN exec_spawn_error
    ELSE IF outcome = "no_storage"
    THEN [code |-> -1, stderr |-> "no_storage", raised |-> FALSE]
    ELSE IF outcome = "filters_error"
    THEN [code |-> -1, stderr |-> "filters", raised |-> FALSE]
    ELSE [code |-> loop.code, stderr |-> loop.stderr, raised |-> (outcome = "raise")]

\* run_backup_task up to the engine's Popen; run_restore_task and
\* run_restore_storage_task up to their call of duplicacy_service.restore.
Prepare(outcome) ==
    /\ loop.busy /\ loop.pc = "begin"
    /\ outcome \in PrepareOutcomes(loop.kind)
    /\ loop' = [loop EXCEPT !.pc = IF outcome = "spawned" THEN "engine" ELSE "post",
                            !.code = PreparedResult(outcome).code,
                            !.stderr = PreparedResult(outcome).stderr,
                            !.raised = PreparedResult(outcome).raised,
                            !.outcome = outcome]
    /\ active' = IF loop.kind = "backup" /\ outcome \in {"spawn_error", "spawned"}
                    /\ Has(active, LoopKey)
                 THEN [active EXCEPT ![LoopKey].lastOutput = "backup-running"]
                 ELSE active
    \* on_process_start
    /\ processes' = IF outcome = "spawned" THEN Put(processes, LoopKey, "engine")
                    ELSE processes
    /\ UNCHANGED <<completed, cancelFlags, tasks, nextId, observers, resp, recording, hist, timeVars, calc, authVars, repos, cache>>

\* Faulty variant: the callback puts the line in front of the others.
progress_lines_in_front(lines, clean) == <<clean>> \o lines

\* `active_backups[req.repoId].setdefault("outputLines", []).append(clean)`
progress_lines(lines, clean) == Append(lines, clean)

\* on_progress, called by exec for each line the process writes: an empty line
\* (blank) or the next line of text.
EngineLine(blank, eol) ==
    LET raw == RawLine(IF blank THEN ""
                       ELSE LineText(Len(active[LoopKey].outputLines) + 1), eol)
    IN
    /\ loop.busy /\ loop.pc \in {"engine", "copy"}
    /\ Has(active, LoopKey)
    /\ Len(active[LoopKey].outputLines) < MaxLines
    /\ active' = IF Has(active, LoopKey) /\ Clean(raw) # ""
                 THEN [active EXCEPT ![LoopKey].lastOutput = Clean(raw),
                                     ![LoopKey].outputLines = progress_lines(@, Clean(raw))]
                 ELSE active
    /\ UNCHANGED <<completed, processes, cancelFlags, tasks, loop, nextId, observers,
                   resp, recording, hist, timeVars, calc, authVars, repos, cache>>

\* Faulty variant: the change summary is asked for whatever the exit code.
summary_wanted_always(code) == TRUE

\* `if result.get("code") == 0 and primary_storage_name:`, for the exit code.
summary_wanted(code) == code = 0

\* process.wait() of the backup or restore process; a backup that ended with
\* code 0 and has replication configured goes on to the copy.
EngineExit(code, replicate) ==
    /\ loop.busy /\ loop.pc = "engine"
    /\ loop' = [loop EXCEPT !.code = code, !.stderr = "",
                            !.pc = IF loop.kind = "backup" /\ code = 0 /\ replicate
                                   THEN "replicate"
                                   ELSE IF loop.kind = "backup" /\ summary_wanted(code)
                                   THEN "summary" ELSE "post"]
    /\ UNCHANGED <<active, completed, processes, cancelFlags, tasks, nextId, observers,
                   resp, recording, hist, timeVars, calc, authVars, repos, cache>>

\* duplicacy_service.copy: Popen, then on_process_start with the copy process.
CopySpawn(ok) ==
    /\ loop.busy /\ loop.pc = "replicate"
    /\ active' = IF Has(active, LoopKey)
                 THEN [active EXCEPT ![LoopKey].lastOutput = "replicating"]
                 ELSE active
    /\ loop' = [loop EXCEPT !.pc = IF ok THEN "copy" ELSE "post",
                            !.code = IF ok THEN @ ELSE exec_spawn_error.code,
                            !.stderr = IF ok THEN @ ELSE exec_spawn_error.stderr]
    /\ processes' = IF ok THEN Put(processes, LoopKey, "copy") ELSE processes
    /\ UNCHANGED <<completed, cancelFlags, tasks, nextId, observers, resp, recording, hist, timeVars, calc, authVars, repos, cache>>

\* `if copy_result["code"] != 0: result = {"code": copy_result["code"], ...}`
CopyExit(code) ==
    /\ loop.busy /\ loop.pc = "copy"
    /\ loop' = [loop EXCEPT !.code = IF code # 0 THEN code ELSE @,
                            !.pc = IF summary_wanted(IF code # 0 THEN code ELSE loop.code)
                                   THEN "summary" ELSE "post"]
    /\ UNCHANGED <<active, completed, processes, cancelFlags, tasks, nextId, observers,
                   resp, recording, hist, timeVars, calc, authVars, repos, cache>>

\* What the engine answers to the calls of one change summary: the snapshot
\* listing, the listing of the created revision and that of the previous one.
\* An answer that is never asked for is left out: a failed snapshot listing
\* names no revision, and no listing is asked for after a failed one.
SummaryInputs ==
    {in \in [snapshotsOk : BOOLEAN, revisions : {{}, {1}, 1 .. MaxRev},
             pre_latest_revision : {None, 1},
             latestOk : BOOLEAN, prevOk : BOOLEAN,
             latestFiles : {{[path |-> "a", raw |-> "h1"], [path |-> "b", raw |-> "h2"]}},
             prevFiles : {{[path |-> "a", raw |-> "h1"], [path |-> "c", raw |-> "h3"]}}] :
        /\ ~in.snapshotsOk => in.revisions = {}
        /\ in.revisions = {} => in.latestOk
        /\ ~in.latestOk => in.prevOk}

\* The answers of an engine that finds one revision more than before the
\* backup and lists both.
GoodSummaryInput ==
    CHOOSE in \in SummaryInputs :
        /\ in.snapshotsOk /\ in.latestOk /\ in.prevOk
        /\ in.revisions = 1 .. MaxRev /\ in.pre_latest_revision = 1

\* One run of the change summary block: the answers of the engine, whether
\* the repository has a storage name to ask with (`primary_storage_name`), and
\* whether a call inside build_backup_change_summary raises.
SummaryCases ==
    {c \in [in : SummaryInputs, named : BOOLEAN, raises : BOOLEAN] :
        (~c.named \/ c.raises) => (c.in = GoodSummaryInput /\ ~(~c.named /\ c.raises))}

\* The way build_backup_change_summary was left.
SummaryPath(c) ==
    IF ~c.named THEN "no_name"
    ELSE IF c.raises THEN "raise"
    ELSE IF ~c.in.snapshotsOk THEN "snapshots_failed"
    ELSE IF c.in.revisions = {} THEN "no_revisions"
    ELSE LET out == build_backup_change_summary(c.in)
         IN IF out.listCalls = 0 THEN "no_new_revision"
            ELSE IF ~c.in.latestOk THEN "latest_failed"
            ELSE IF out.listCalls = 2 /\ ~c.in.prevOk THEN "previous_failed"
            ELSE "compared"

\* The change summary block of run_backup_task: a summary that was returned,
\* be it ok or not, is put into the active entry; an exception is logged and
\* dropped.
Summarize(c) ==
    LET returned == c.named /\ ~c.raises
        backup_summary == build_backup_change_summary(c.in)
    IN
    /\ loop.busy /\ loop.pc = "summary"
    /\ c \in SummaryCases
    /\ loop' = [loop EXCEPT !.pc = "post", !.summary = SummaryPath(c)]
    /\ active' = IF Has(active, LoopKey) /\ returned
                 THEN [active EXCEPT ![LoopKey].backupSummary =
                          IF backup_summary.ok THEN "ok" ELSE "unavailable"]
                 ELSE active
    /\ UNCHANGED <<completed, processes, cancelFlags, tasks, nextId, observers,
                   resp, recording, hist, timeVars, calc, authVars, repos, cache>>

\* `was_cancelled = bool((active.get(key) or {}).get("cancelRequested"))`, for the
\* restore kinds `... or bool(active_restore_cancel_flags.get(key))`.
WasCancelled(kind, key) ==
    \/ Has(active, <<kind, key>>) /\ active[<<kind, key>>].cancelRequested
    \/ kind \in RestoreKinds /\ Has(cancelFlags, <<kind, key>>) /\ cancelFlags[<<kind, key>>]

\* `(active_backups.get(req.repoId) or {}).get("backupSummary")`
StoredSummary(kind, key) ==
    IF Has(active, <<kind, key>>) THEN active[<<kind, key>>].backupSummary ELSE "none"

\* The record the task stores on its normal path.
NormalResult(kind, key, id, code) ==
    [id |-> id, code |-> code, stderr |-> loop.stderr,
     hasCanceled |-> TRUE, canceled |-> WasCancelled(kind, key),
     backupSummary |-> StoredSummary(kind, key)]

\* The record the task stores in `except Exception`: the backup task leaves the
\* "canceled" key out, the restore tasks compute it as on the normal path.
ExceptResult(kind, key, id, code) ==
    IF kind = "backup"
    THEN [id |-> id, code |-> code, stderr |-> loop.stderr,
          hasCanceled |-> FALSE, canceled |-> FALSE,
          backupSummary |-> StoredSummary(kind, key)]
    ELSE [id |-> id, code |-> code, stderr |-> "exception",
          hasCanceled |-> TRUE, canceled |-> WasCancelled(kind, key),
          backupSummary |-> "none"]

\* `"cancelled" if was_cancelled else ("success" if result["code"] == 0 else "error")`
final_status(code) ==
    IF WasCancelled(loop.kind, loop.key) THEN "cancelled"
    ELSE IF code = 0 THEN "success" ELSE "error"

\* Faulty variant: the active entry is removed at the end of the try block, so
\* a task that raised leaves it behind.
finally_active_unless_raised(raised) ==
    IF raised THEN active ELSE Pop(active, LoopKey)

\* `finally: ... active_backups.pop(req.repoId, None)`
finally_active(raised) == Pop(active, LoopKey)

\* Faulty variant: the finally block leaves the process handle registered.
finally_processes_kept == processes

\* `finally: ... active_backup_processes.pop(req.repoId, None)`
finally_processes == Pop(processes, LoopKey)

\* The first part of a cache key: the snapshot list and the file list of a
\* repository.
RepoLists == {"repo-snapshots", "repo-files"}

\* _remote_cache_key joins its parts with "||"; the parts after the id (the
\* storage name, the revision, the password digest) take one value here.
remote_cache_key(list, id) == <<list, id>>

\* `k.startswith(f"repo-snapshots||{id}||") or k.startswith(f"repo-files||{id}||")`
is_repo_key(k, id) == k[1] \in RepoLists /\ k[2] = id

\* Faulty variant: the finally block leaves the listing cache as it is.
finally_cache_kept == cache

\* `finally:` of run_backup_task: the keys of the repository's snapshot and
\* file lists are collected and popped; the restore tasks leave the cache alone.
finally_cache ==
    IF loop.kind = "backup"
    THEN [k \in {x \in DOMAIN cache : ~is_repo_key(x, loop.key)} |-> cache[k]]
    ELSE cache

\* The rest of the task: the configuration update (which may raise), the
\* completed record, and the finally block that clears the active entry.
Finish(storeRaises) ==
    /\ loop.busy /\ loop.pc = "post"
    /\ completed' = Put(completed, LoopKey,
                        IF loop.raised \/ (loop.kind = "backup" /\ storeRaises)
                        THEN ExceptResult(loop.kind, loop.key, loop.id, loop.code)
                        ELSE NormalResult(loop.kind, loop.key, loop.id, loop.code))
    /\ processes' = finally_processes
    /\ cancelFlags' = Pop(cancelFlags, LoopKey)
    /\ active' = finally_active(loop.raised \/ (loop.kind = "backup" /\ storeRaises))
    /\ loop' = Idle
    /\ hist' = [hist EXCEPT ![loop.id].state = "finished",
                             ![loop.id].invalidated =
                                 Cardinality(DOMAIN cache \ DOMAIN finally_cache)]
    /\ schedule' = IF loop.kind = "backup" /\ ~loop.raised /\ ~storeRaises
                   THEN [schedule EXCEPT !.lastRunAt = clock,
                                         !.lastRunStatus = final_status(loop.code)]
                   ELSE schedule
    /\ cache' = finally_cache
    /\ UNCHANGED <<tasks, nextId, observers, resp, recording, clock, tickLog, calc, authVars, repos>>

\* --------------------------------------------------------------- scheduler

\* update_repo with a schedule in the request body.
SetSchedule(enabled, type, time, days) ==
    /\ ~loop.busy
    /\ Keys \subseteq repos
    /\ schedule' = normalize_schedule_config(
                       [enabled |-> enabled, type |-> type, time |-> time, days |-> days],
                       schedule, clock)
    /\ UNCHANGED <<jobVars, observers, resp, recording, hist, clock, tickLog, calc, authVars, repos, cache>>

\* The wall clock moves on.
Advance ==
    /\ clock < MaxClock
    /\ clock' = clock + 1
    /\ UNCHANGED <<jobVars, observers, resp, recording, hist, schedule, tickLog, calc, authVars, repos, cache>>

\* The stored nextRunAt has been reached, the schedule is enabled and the
\* repository has no active backup: what the tick finds on entry.
Due(key) ==
    /\ schedule.enabled
    /\ parse_iso_datetime(schedule.nextRunAt) # None
    /\ schedule.nextRunAt <= clock
    /\ ~Has(active, <<"backup", key>>)

\* Faulty variant: the tick leaves a disabled schedule as it finds it.
disabled_schedule_kept(sch) == sch

\* `if schedule.get("nextRunAt") is not None: schedule["nextRunAt"] = None`
disabled_schedule(sch) ==
    IF sch.nextRunAt # None THEN [sch EXCEPT !.nextRunAt = None] ELSE sch

\* `now + timedelta(seconds=60)`: one minute after the tick.
RetryFrom(now) == now + TicksPerSlot

\* Faulty variant: a tick that waits for an active backup records an error.
waiting_schedule_error(current) == [current EXCEPT !.lastRunStatus = "error"]

\* `if repo.get("id") in active_backups: continue` and `if not next_run or
\* next_run > now: continue`: nothing more is written for the repository.
waiting_schedule(current) == current

\* The three ways `await start_backup(...)` can end inside the tick.
StartEnds == {"ok", "http", "raise"}

\* What the tick writes into the schedule after its start call (the text of
\* lastError, which no step reads, is left out of the schedule).
dispatched_schedule(current, now, start) ==
    IF start = "ok"
    THEN [current EXCEPT
            !.lastRunAt = now, !.lastRunStatus = "queued",
            !.nextRunAt = compute_next_run_for_schedule(current, now + 1)]
    ELSE [current EXCEPT
            !.lastRunAt = now, !.lastRunStatus = "error",
            !.nextRunAt = compute_next_run_for_schedule(current, RetryFrom(now))]

\* scheduler_tick, for the one repository of the store.
scheduler_tick(key) ==
    /\ ~loop.busy
    /\ key \in repos
    /\ IF ~schedule.enabled
       THEN /\ schedule' = disabled_schedule(schedule)
            /\ tickLog' = [NoTick EXCEPT !.ran = TRUE,
                             !.active = Has(active, <<"backup", key>>),
                             !.changed = schedule.nextRunAt # None]
            /\ UNCHANGED <<jobVars, hist>>
       ELSE LET normalized == normalize_schedule_config(schedule, schedule, clock)
                parsed == parse_iso_datetime(normalized.nextRunAt)
                next_run == IF parsed = None
                            THEN compute_next_run_for_schedule(normalized, clock)
                            ELSE parsed
                current == [normalized EXCEPT !.nextRunAt = next_run]
                found == [NoTick EXCEPT !.ran = TRUE, !.enabled = TRUE,
                            !.due = Due(key),
                            !.active = Has(active, <<"backup", key>>),
                            !.stored = StoredNextRun(schedule, clock)]
            IN IF Has(active, <<"backup", key>>) \/ next_run = None \/ next_run > clock
               THEN /\ schedule' = waiting_schedule(current)
                    /\ tickLog' = [found EXCEPT !.changed = current # schedule]
                    /\ UNCHANGED <<jobVars, hist>>
               ELSE \E start \in StartEnds :
                    /\ schedule' = dispatched_schedule(current, clock, start)
                    /\ tickLog' = [found EXCEPT !.changed = TRUE, !.calls = 1,
                                     !.starts = IF start = "ok" THEN 1 ELSE 0,
                                     !.failed = start # "ok"]
                    /\ IF start = "ok"
                       THEN nextId <= MaxJobs /\ Accept("backup", key, "scheduler")
                       ELSE UNCHANGED <<jobVars, hist>>
    /\ UNCHANGED <<observers, resp, recording, clock, calc, authVars, repos, cache>>

\* ------------------------------------------------------------ repositories

\* Faulty variant: a repository is deleted whether it has an active backup or not.
DeleteConflictNever(key) == FALSE

\* `if repo_id in active_backups: raise HTTPException(409)`
DeleteConflict(key) == Has(active, <<"backup", key>>)

\* delete_repo: 409 while the repository has an active backup, 404 for an id
\* the store does not hold, else the record leaves the store.
delete_repo(key) ==
    /\ ~loop.busy
    /\ IF DeleteConflict(key)
       THEN /\ resp' = Response("delete", "backup", key, 409)
            /\ UNCHANGED repos
       ELSE IF key \notin repos
       THEN /\ resp' = Response("delete", "backup", key, 404)
            /\ UNCHANGED repos
       ELSE /\ resp' = Response("delete", "backup", key, 200)
            /\ repos' = repos \ {key}
    /\ UNCHANGED <<jobVars, observers, recording, hist, timeVars, calc, authVars, cache>>

\* ------------------------------------------------------------ listing cache

\* Backups of the repository that have run to their end.
FinishedBackups(id) ==
    Cardinality({j \in JobIds : /\ hist[j].state = "finished"
                               /\ hist[j].kind = "backup" /\ hist[j].key = id})

\* _remote_cache_get: the value, unless the key is missing; an entry older
\* than the time to live is removed and counts as missing.
remote_cache_get(k, expired) == Has(cache, k) /\ ~expired

\* A cached listing handler: list_snapshots and list_snapshot_files of
\* routers/restore.py (refresh is always false for the file list).  A listing
\* that is not served from the cache is asked of the engine and cached when
\* the engine succeeds; the value records how many backups of the repository
\* had finished by then.
list_cached(list, id, refresh, expired, ok) ==
    LET k == remote_cache_key(list, id)
        dropped == IF Has(cache, k) /\ expired /\ ~refresh THEN Pop(cache, k) ELSE cache
    IN
    /\ ~loop.busy
    /\ IF id \notin repos
       THEN /\ resp' = Response("list", list, id, 404)
            /\ UNCHANGED cache
       ELSE IF ~refresh /\ remote_cache_get(k, expired)
       THEN /\ resp' = Response("list", list, id, 200)
            /\ UNCHANGED cache
       ELSE IF ~ok
       THEN /\ resp' = Response("list", list, id, 500)
            /\ cache' = dropped
       ELSE /\ resp' = Response("list", list, id, 200)
            /\ cache' = Put(dropped, k, FinishedBackups(id))
    /\ UNCHANGED <<jobVars, observers, recording, hist, timeVars, calc, authVars, repos>>

\* -------------------------------------------------------- progress streams

\* Faulty variant: the slice starts one line late.
ChunkFromNext(lines, sent_lines) == SubSeq(lines, sent_lines + 2, Len(lines))

\* `chunk = "\n".join(lines[sent_lines:])`: the lines from the cursor on.
ChunkFrom(lines, sent_lines) == SubSeq(lines, sent_lines + 1, Len(lines))

\* `sent_lines = len(lines)` after a chunk has been yielded.
CursorAfter(lines, sent_lines) == Len(lines)

\* backup_progress, restore_progress, restore_from_storage_progress: the
\* request opens the stream; event_generator starts with sent_lines = 0.
ObsOpen(o, kind, key) ==
    /\ ~loop.busy
    /\ observers[o].phase = "closed"
    /\ observers' = [observers EXCEPT ![o] =
                       [ClosedObserver EXCEPT !.phase = "open", !.kind = kind, !.key = key]]
    /\ UNCHANGED <<jobVars, resp, recording, hist, timeVars, calc, authVars, repos, cache>>

\* The final event a stream builds from a completed record: `"code"`,
\* `"canceled": bool(completed.get("canceled"))` and `"success"`.
Payload(record) ==
    [done |-> TRUE, code |-> record.code, canceled |-> record.canceled,
     success |-> (record.code = 0 /\ ~record.canceled)]

\* Faulty variant: the record is read and stays in the map.
TakeCompletedKeep(m, kk) == m

\* `completed = completed_backups.pop(repo_id, None)`: the record leaves the map.
TakeCompleted(m, kk) == Pop(m, kk)

\* One iteration of event_generator's loop: the event it yields and the sleep
\* that follows; the next iteration starts when the loop is free again.
ObsPoll(o) ==
    LET ob == observers[o]
        kk == <<ob.kind, ob.key>>
    IN
    /\ ~loop.busy
    /\ ob.phase = "open"
    /\ IF Has(active, kk)
       THEN LET lines == active[kk].outputLines IN
            /\ observers' = [observers EXCEPT ![o] =
                 IF ob.sent_lines < Len(lines)
                 THEN [ob EXCEPT !.last = "output",
                                 !.delivered = @ \o ChunkFrom(lines, ob.sent_lines),
                                 !.sent_lines = CursorAfter(lines, ob.sent_lines),
                                 !.seen = @ \cup {active[kk].id}]
                 ELSE [ob EXCEPT !.last = "running",
                                 !.seen = @ \cup {active[kk].id}]]
            /\ UNCHANGED completed
            /\ hist' = [j \in JobIds |->
                          IF hist[j].state = "finished" /\ <<hist[j].kind, hist[j].key>> = kk
                          THEN [hist[j] EXCEPT !.polledAfter = TRUE] ELSE hist[j]]
       ELSE IF Has(completed, kk)
       THEN /\ completed' = TakeCompleted(completed, kk)
            /\ observers' = [observers EXCEPT ![o] =
                 [ClosedObserver EXCEPT !.last = "result"]]
            /\ hist' = [j \in JobIds |->
                          IF j = completed[kk].id
                          THEN [hist[j] EXCEPT !.picked = @ + 1, !.polledAfter = TRUE]
                          ELSE IF hist[j].state = "finished"
                                  /\ <<hist[j].kind, hist[j].key>> = kk
                          THEN [hist[j] EXCEPT !.polledAfter = TRUE] ELSE hist[j]]
       ELSE /\ observers' = [observers EXCEPT ![o] =
                 [ClosedObserver EXCEPT !.last = "bare"]]
            /\ UNCHANGED completed
            /\ hist' = [j \in JobIds |->
                          IF hist[j].state = "finished" /\ <<hist[j].kind, hist[j].key>> = kk
                          THEN [hist[j] EXCEPT !.polledAfter = TRUE] ELSE hist[j]]
    /\ UNCHANGED <<active, processes, cancelFlags, tasks, loop, nextId, resp, recording, timeVars, calc, authVars, repos, cache>>

\* Requests and background tasks.
\* The steps of the jobs of some kinds, with the ways a preparation and a
\* change summary can end drawn from the sets given.
JobStepOf(kinds, prepares, summaries) ==
    \/ \E kind \in kinds, key \in AllKeys, trigger \in {"manual"} :
          Start(kind, key, trigger)
    \/ \E kind \in kinds, key \in AllKeys, term \in {"ok", "failed"} :
          Cancel(kind, key, term)
    \/ \E t \in tasks : TaskBegin(t)
    \/ \E outcome \in prepares : Prepare(outcome)
    \/ \E blank \in BOOLEAN, eol \in LineEnds : EngineLine(blank, eol)
    \/ \E code \in {0, 1}, replicate \in BOOLEAN : EngineExit(code, replicate)
    \/ \E ok \in BOOLEAN : CopySpawn(ok)
    \/ \E c \in summaries : Summarize(c)
    \/ \E code \in {0, 1} : CopyExit(code)
    \/ \E storeRaises \in BOOLEAN : Finish(storeRaises)

JobStep(kinds) == JobStepOf(kinds, PrepareOutcomes("backup"), SummaryCases)

\* A stream reads the output lines of an active entry and the code and the
\* canceled flag of a stored result, the scheduler whether an entry is active
\* and which status a backup wrote into the schedule: the jobs they meet are
\* prepared in three ways and end with a summary or without one.
FewPrepares == {"spawn_error", "spawned", "raise"}
FewSummaries ==
    {c \in SummaryCases : c.named /\ c.in = GoodSummaryInput}

StreamStep(kinds) ==
    \/ \E o \in Obs, kind \in kinds, key \in Keys : ObsOpen(o, kind, key)
    \/ \E o \in Obs : ObsPoll(o)

Next == JobStep(Kinds)

NextStreams ==
    \/ JobStepOf(StreamKinds, FewPrepares, FewSummaries)
    \/ StreamStep(StreamKinds)

\* Requests and background tasks of the three job kinds; responses recorded.
Spec == Init /\ [][Next]_vars

\* What a task does once it has been created: its first step, and every later
\* step but the output of one more line.
TaskRun ==
    \/ \E outcome \in PrepareOutcomes("backup") : Prepare(outcome)
    \/ \E code \in {0, 1}, replicate \in BOOLEAN : EngineExit(code, replicate)
    \/ \E ok \in BOOLEAN : CopySpawn(ok)
    \/ \E code \in {0, 1} : CopyExit(code)
    \/ \E c \in SummaryCases : Summarize(c)
    \/ \E storeRaises \in BOOLEAN : Finish(storeRaises)

NextLive == JobStep(StreamKinds)

\* Backups and restores under the scheduling of the event loop: a created task
\* gets its first step, and a task that holds the loop goes on, each call it
\* makes returning and the engine process it waits for ending.
SpecLive ==
    /\ InitStreams
    /\ [][NextLive]_vars
    /\ WF_vars(\E t \in tasks : TaskBegin(t))
    /\ WF_vars(TaskRun)

SchedStep ==
    \/ \E enabled \in BOOLEAN, type \in {"daily", "weekly"}, time \in Times,
          days \in {{}, {Mon + 1}} :
          SetSchedule(enabled, type, time, days)
    \/ Advance
    \/ \E key \in Keys : scheduler_tick(key)

NextSched == JobStepOf({"backup"}, FewPrepares, FewSummaries) \/ SchedStep

\* Backups, schedule edits, the wall clock and the scheduler's ticks.
InitSched ==
    /\ InitMaps
    /\ schedule \in StoredSchedules
    /\ recording = FALSE
    /\ calc = NoCalc

SpecSched == InitSched /\ [][NextSched]_vars

\* Backup and repository-restore jobs with two progress streams.
SpecStreams == InitStreams /\ [][NextStreams]_vars

\* Backups and repository restores, and the deletion of repositories.
NextRepos ==
    \/ JobStepOf({"backup", "restore"}, FewPrepares, FewSummaries)
    \/ \E key \in AllKeys : delete_repo(key)

SpecRepos == Init /\ [][NextRepos]_vars

\* Backups of one repository, and the cached listings of that repository and
\* of a second one.
NextCache ==
    \/ JobStepOf({"backup"}, FewPrepares, FewSummaries)
    \/ \E list \in RepoLists, id \in Keys \cup {UnknownKey},
          refresh \in BOOLEAN, expired \in BOOLEAN, ok \in BOOLEAN :
          list_cached(list, id, refresh, expired, ok)
    \/ \E expired \in BOOLEAN : list_cached("repo-snapshots", OtherKey, FALSE, expired, TRUE)

SpecCache == Init /\ [][NextCache]_vars

\* ------------------------------------------------- next run, as a function

\* compute_next_run_for_schedule on a schedule and an instant of one week.
\* A schedule type the code does not know stands for every such string.
ScheduleTypes == {"daily", "weekly", "hourly"}

NextRunInputs ==
    [fn : {"next_run"}, done : {FALSE}, op : {"none"},
     enabled : BOOLEAN, type : ScheduleTypes, time : Times,
     days : SUBSET DayTokens, now : 0 .. (WeekLen - 1), result : {None},
     stored_type : {"none"}, stored_days : {{}}]

InitNextRun ==
    /\ InitJobs
    /\ recording = FALSE
    /\ calc \in NextRunInputs

ComputeNextRun ==
    /\ calc.fn = "next_run" /\ ~calc.done
    /\ calc' = [calc EXCEPT
                  !.done = TRUE, !.op = "compute",
                  !.result = compute_next_run_for_schedule(
                                [enabled |-> calc.enabled, type |-> calc.type,
                                 time |-> calc.time, days |-> calc.days],
                                calc.now)]
    /\ UNCHANGED <<jobVars, observers, resp, recording, hist, timeVars, authVars, repos, cache>>

\* normalize_schedule_config applied to the schedule of a request, at the
\* instant now, for a repository that has not run yet.
NormalizeSchedule ==
    /\ calc.fn = "next_run" /\ ~calc.done
    /\ LET normalized ==
              normalize_schedule_config(
                  [enabled |-> calc.enabled, type |-> calc.type,
                   time |-> calc.time, days |-> calc.days],
                  NoSchedule, calc.now)
       IN calc' = [calc EXCEPT
                     !.done = TRUE, !.op = "normalize",
                     !.result = normalized.nextRunAt,
                     !.stored_type = normalized.type,
                     !.stored_days = normalized.days]
    /\ UNCHANGED <<jobVars, observers, resp, recording, hist, timeVars, authVars, repos, cache>>

NextNextRun == ComputeNextRun \/ NormalizeSchedule

SpecNextRun == InitNextRun /\ [][NextNextRun]_vars

\* ----------------------------------------- change summary, as a function
\* The answers of the engine a summary is built from.
DiffInputs ==
    [fn : {"diff"}, done : {FALSE},
     snapshotsOk : BOOLEAN, revisions : SUBSET (1 .. MaxRev),
     pre_latest_revision : {None} \cup (1 .. MaxRev),
     latestOk : BOOLEAN, prevOk : BOOLEAN,
     latestFiles : Listings, prevFiles : Listings,
     out : {NoSummary}]

InitDiff ==
    /\ InitJobs
    /\ recording = FALSE
    /\ calc \in DiffInputs

BuildSummary ==
    /\ calc.fn = "diff" /\ ~calc.done
    /\ calc' = [calc EXCEPT !.done = TRUE, !.out = build_backup_change_summary(calc)]
    /\ UNCHANGED <<jobVars, observers, resp, recording, hist, timeVars, authVars, repos, cache>>

NextDiff == BuildSummary

SpecDiff == InitDiff /\ [][NextDiff]_vars

\* Larger listings: a set of up to MaxPaths file paths all of which are new,
\* all changed or all deleted in the created revision, or which fall into the
\* three classes in turn.
SamplePaths == {SamplePathOrder[n] : n \in 1 .. MaxPaths}
SampleModes == {"new", "changed", "deleted", "mixed"}

PathClass(mode, p) ==
    IF mode # "mixed" THEN mode
    ELSE LET n == CHOOSE i \in 1 .. Len(SamplePathOrder) : SamplePathOrder[i] = p
         IN IF n % 3 = 1 THEN "new" ELSE IF n % 3 = 2 THEN "changed" ELSE "deleted"

SampleInput(S, mode) ==
    [fn |-> "diff", done |-> FALSE,
     snapshotsOk |-> TRUE, revisions |-> 1 .. MaxRev, pre_latest_revision |-> 1,
     latestOk |-> TRUE, prevOk |-> TRUE,
     latestFiles |-> {[path |-> p, raw |-> "h2"] :
                         p \in {q \in S : PathClass(mode, q) # "deleted"}},
     prevFiles |-> {[path |-> p, raw |-> "h1"] :
                         p \in {q \in S : PathClass(mode, q) # "new"}},
     out |-> NoSummary]

InitSample ==
    /\ InitJobs
    /\ recording = FALSE
    /\ calc \in {SampleInput(S, mode) : S \in SUBSET SamplePaths, mode \in SampleModes}

SpecSample == InitSample /\ [][NextDiff]_vars

\* ------------------------------------------------- secure cookie, as a function

\* Spellings of a scheme as a request or a proxy can give it; "" is the empty
\* string.
ProtoTokens == {"https", "HTTPS", " https ", "http", "ws", ""}

\* `str(...).strip().lower()` on one scheme.
strip_lower(t) ==
    IF t \in {"https", "HTTPS", " https "} THEN "https" ELSE t

\* Python's None where a string is expected.
NoString == "None"

\* An X-Forwarded-Proto header: its entries between the commas; a request
\* without the header has none.
NoHeader == <<>>
ForwardedHeaders ==
    {NoHeader} \cup {<<a>> : a \in ProtoTokens}
    \cup {<<a, b>> : a \in ProtoTokens, b \in ProtoTokens}

\* `if forwarded:` on `str(x_forwarded_proto or "").strip().lower()`: a header
\* that is missing, empty or blank is skipped.
forwarded_given(header) ==
    header # NoHeader /\ ~(Len(header) = 1 /\ strip_lower(header[1]) = "")

\* Faulty variant: the entry the last proxy added is looked at.
forwarded_last(header) == strip_lower(header[Len(header)])

\* `first = forwarded.split(",")[0].strip()`
forwarded_first(header) == strip_lower(header[1])

\* What the settings file can hold as panelAccess.cookieSecureMode, and as the
\* older panelAccess.cookieSecure.
StoredCookieModes == {NoString, "auto", "always", "never", "ALWAYS", "sometimes"}
StoredCookieSecure == {NoString, "true", "false"}

\* _read_panel_access_cfg, for "cookieSecureMode"
read_cookie_secure_mode(stored_mode, stored_secure) ==
    LET raw_cookie_mode ==
            IF stored_mode = NoString /\ stored_secure # NoString
            THEN (IF stored_secure = "true" THEN "always" ELSE "never")
            ELSE stored_mode
        cookie_secure_mode ==
            IF raw_cookie_mode = NoString THEN "auto"
            ELSE IF raw_cookie_mode = "ALWAYS" THEN "always"
            ELSE raw_cookie_mode
    IN IF cookie_secure_mode \in {"auto", "always", "never"}
       THEN cookie_secure_mode ELSE "auto"

should_use_secure_cookie(mode, request_scheme, x_forwarded_proto) ==
    IF mode = "always" THEN TRUE
    ELSE IF mode = "never" THEN FALSE
    ELSE IF strip_lower(IF request_scheme = NoString THEN "" ELSE request_scheme) = "https"
    THEN TRUE
    ELSE IF forwarded_given(x_forwarded_proto)
            /\ forwarded_first(x_forwarded_proto) = "https"
    THEN TRUE
    ELSE FALSE

CookieInputs ==
    [fn : {"cookie"}, done : {FALSE},
     stored_mode : StoredCookieModes, stored_secure : StoredCookieSecure,
     request_scheme : ProtoTokens \cup {NoString},
     x_forwarded_proto : ForwardedHeaders,
     mode : {"none"}, result : {FALSE}]

InitCookie ==
    /\ InitJobs
    /\ recording = FALSE
    /\ calc \in CookieInputs

UseSecureCookie ==
    /\ calc.fn = "cookie" /\ ~calc.done
    /\ LET mode == read_cookie_secure_mode(calc.stored_mode, calc.stored_secure)
       IN calc' = [calc EXCEPT
                     !.done = TRUE, !.mode = mode,
                     !.result = should_use_secure_cookie(
                                    mode, calc.request_scheme, calc.x_forwarded_proto)]
    /\ UNCHANGED <<jobVars, observers, resp, recording, hist, timeVars, authVars, repos, cache>>

NextCookie == UseSecureCookie

SpecCookie == InitCookie /\ [][NextCookie]_vars

\* ------------------------------------------ notification merge, as a function

\* A key that the dictionary does not have.
Absent == "absent"

\* What a stored "enabled" can be: a boolean, null, or a non-empty string.
EnabledValues == {"True", "False", NoString, "on"}

\* bool(value)
truthy(v) == v \in {"True", "on", "https://hc", "https://hc-backup",
                    " https://hc-backup ", " ", "smtp.local", "smtp.repo"}

\* str(value).strip()
strip(v) ==
    IF v = " https://hc-backup " THEN "https://hc-backup"
    ELSE IF v = " " THEN "" ELSE v

\* Faulty variant: without an override the global flag decides.
merged_enabled_or_global(global_enabled, override) ==
    IF override # Absent THEN truthy(override) ELSE global_enabled

\* `merged[...]["enabled"] = False`, then
\* `if "enabled" in rr_hc: merged[...]["enabled"] = bool(rr_hc.get("enabled"))`
merged_enabled(global_enabled, override) ==
    IF override # Absent THEN truthy(override) ELSE FALSE

\* `if rr_hc.get("url"): merged["healthchecks"]["url"] = str(...).strip()`
merged_url(global_url, override) ==
    IF override # Absent /\ truthy(override) THEN strip(override) ELSE global_url

\* _merge_repo_notification_overrides, for the enabled flags and the transport
\* values; the SMTP settings of a repository are not looked at.
merge_repo_notification_overrides(global_cfg, repo_cfg) ==
    [healthchecks |->
        [enabled |-> merged_enabled(global_cfg.healthchecks.enabled,
                                    repo_cfg.healthchecks.enabled),
         url |-> merged_url(global_cfg.healthchecks.url, repo_cfg.healthchecks.url)],
     email |->
        [enabled |-> merged_enabled(global_cfg.email.enabled, repo_cfg.email.enabled),
         smtpHost |-> global_cfg.email.smtpHost]]

\* The global configuration as _normalize_notifications_cfg returns it, and
\* the "notifications" object of a repository; a repository without the
\* object, or without a channel in it, is one with every key absent.
GlobalNotificationCfgs ==
    [healthchecks : [enabled : BOOLEAN, url : {"", "https://hc"}],
     email : [enabled : BOOLEAN, smtpHost : {"", "smtp.local"}]]
RepoNotificationCfgs ==
    [healthchecks : [enabled : EnabledValues \cup {Absent},
                     url : {Absent, "", " ", "https://hc-backup", " https://hc-backup "}],
     email : [enabled : EnabledValues \cup {Absent},
              smtpHost : {Absent, "smtp.repo"}]]

NoMerged ==
    [healthchecks |-> [enabled |-> FALSE, url |-> ""],
     email |-> [enabled |-> FALSE, smtpHost |-> ""]]

MergeInputs ==
    [fn : {"merge"}, done : {FALSE}, global_cfg : GlobalNotificationCfgs,
     repo_cfg : RepoNotificationCfgs, merged : {NoMerged}]

InitMerge ==
    /\ InitJobs
    /\ recording = FALSE
    /\ calc \in MergeInputs

MergeOverrides ==
    /\ calc.fn = "merge" /\ ~calc.done
    /\ calc' = [calc EXCEPT
                  !.done = TRUE,
                  !.merged = merge_repo_notification_overrides(calc.global_cfg,
                                                               calc.repo_cfg)]
    /\ UNCHANGED <<jobVars, observers, resp, recording, hist, timeVars, authVars, repos, cache>>

NextMerge == MergeOverrides

SpecMerge == InitMerge /\ [][NextMerge]_vars

\* ------------------------------------------------------ logins to the panel
InitAuth ==
    /\ InitJobs
    /\ recording = FALSE
    /\ calc = NoCalc

NextAuth ==
    \/ \E raw \in RawClientKeys, password_ok \in BOOLEAN, requiresAuth \in BOOLEAN :
          auth_login(raw, password_ok, requiresAuth)
    \/ Advance

\* Login requests of the clients while the wall clock moves on.
SpecAuth == InitAuth /\ [][NextAuth]_vars

\* ================================================================== claims

\* The tasks of (kind, key) that have been created and have not finished.
InFlight(kind, key) ==
    {t.id : t \in {u \in tasks : u.kind = kind /\ u.key = key}}
    \cup (IF loop.busy /\ loop.kind = kind /\ loop.key = key THEN {loop.id} ELSE {})

\* A request was answered in this step.
Answered == resp'.turn # resp.turn

\* C1: in every reachable state there is at most one in-flight job per
\* resource key and kind, and it is the job of the active entry for that key.
C1_SingleFlight ==
    \A kind \in Kinds, key \in AllKeys :
        /\ Cardinality(InFlight(kind, key)) <= 1
        /\ \A id \in InFlight(kind, key) :
              Has(active, <<kind, key>>) /\ active[<<kind, key>>].id = id

\* A backup is inside the engine while a restore of the same resource, started
\* during the backup's startup window, waits for the loop.
C1_Witness ==
    /\ loop.busy /\ loop.kind = "backup" /\ loop.pc = "engine"
    /\ InFlight("restore", loop.key) # {}
    /\ resp.op = "start" /\ resp.code = 409

\* C2: a start call that arrives while a job of that kind for the key is in
\* flight is answered 409, launches no task and leaves nothing behind for
\* later; a start call for an existing key with no job in flight is accepted
\* and launches exactly one task.
C2_SecondStartRejected ==
    [][\A kind \in Kinds, key \in Keys :
          (Answered /\ resp'.op = "start" /\ resp'.kind = kind /\ resp'.key = key)
          => IF InFlight(kind, key) # {}
             THEN /\ resp'.code = 409
                  /\ UNCHANGED <<active, completed, processes, cancelFlags, tasks, nextId>>
             ELSE /\ resp'.code = 200
                  /\ tasks' = tasks \cup {[kind |-> kind, key |-> key, id |-> nextId]}
                  /\ Cardinality(tasks') = Cardinality(tasks) + 1]_vars

\* The second call arrived before the first job's task had even started.
C2_Witness ==
    /\ resp.op = "start" /\ resp.code = 409
    /\ \E t \in tasks : t.kind = resp.kind /\ t.key = resp.key

\* A process handle is registered only while the task that spawned the process
\* holds the loop, so no cancel request finds one: no cancel has succeeded and
\* no terminate signal has been sent, whatever the interleaving.
CancelNeverSucceeds ==
    /\ \A j \in JobIds : ~hist[j].cancelOk /\ ~hist[j].terminated
    /\ (\E kk \in DOMAIN processes : TRUE) => loop.busy
    /\ resp.op = "cancel" => resp.code \in {404, 409}

\* C4: cancel is answered 404 when the key has no active job and 409 when it
\* has one whose process handle is not registered; neither sends a terminate
\* signal.
C4_CancelGating ==
    [][\A kind \in Kinds, key \in AllKeys :
          (Answered /\ resp'.op = "cancel" /\ resp'.kind = kind /\ resp'.key = key)
          => /\ ~Has(active, <<kind, key>>) => resp'.code = 404 /\ ~resp'.signal
             /\ (Has(active, <<kind, key>>) /\ ~Has(processes, <<kind, key>>))
                   => resp'.code = 409 /\ ~resp'.signal
             /\ resp'.code \in {404, 409}
                   => \A j \in JobIds : hist'[j].terminated = hist[j].terminated]_vars

\* A cancel was refused as not yet cancellable: the job is active, its task
\* has not spawned a process.
C4_Witness ==
    /\ resp.op = "cancel" /\ resp.code = 409 /\ ~resp.signal
    /\ Has(active, <<resp.kind, resp.key>>)
    /\ ~Has(processes, <<resp.kind, resp.key>>)

\* The stream of observer o has polled no job but the active one.
OnOneJob(o) ==
    /\ observers[o].phase # "closed"
    /\ Has(active, <<observers[o].kind, observers[o].key>>)
    /\ observers[o].seen = {active[<<observers[o].kind, observers[o].key>>].id}

IsPrefix(p, q) == Len(p) <= Len(q) /\ p = SubSeq(q, 1, Len(p))

\* C5: for an observer polling one running job, the lines delivered so far are
\* a prefix of the job's outputLines, the cursor counts them, and a poll
\* delivers every line up to the end of outputLines at that moment.
C5_NoLineLoss ==
    [][\A o \in Obs :
          /\ OnOneJob(o)'
                => /\ IsPrefix(observers'[o].delivered,
                               active'[<<observers'[o].kind, observers'[o].key>>].outputLines)
                   /\ observers'[o].sent_lines = Len(observers'[o].delivered)
          /\ (OnOneJob(o)' /\ observers[o].phase = "open"
                /\ observers'[o] # observers[o])
                => observers'[o].delivered
                      = active[<<observers[o].kind, observers[o].key>>].outputLines]_vars

\* An observer has been handed two lines of the running job so far,
\* and has just received the latest of them.
C5_Witness ==
    \E o \in Obs :
        /\ OnOneJob(o)
        /\ observers[o].last = "output"
        /\ Len(observers[o].delivered) >= 2

\* C6 as stated: once a job has finished and its key has been observed again,
\* exactly one observation has received the job's populated result.
C6_ExactlyOnePickup ==
    \A j \in JobIds : hist[j].polledAfter => hist[j].picked = 1

\* C6 amended: the result of a finished job is delivered at most once, and it
\* is delivered to the first observation after the finish unless a start call
\* accepted in between has discarded it; a delivered result is no longer
\* stored; an observation that finds neither an active job nor a stored result
\* receives the bare done signal.
C6_AtMostOnePickup ==
    [][/\ \A j \in JobIds :
             /\ hist'[j].picked <= 1
             /\ hist'[j].polledAfter => (hist'[j].picked = 1 \/ hist'[j].discarded)
             /\ ~(hist'[j].picked = 1 /\ hist'[j].discarded)
             /\ hist'[j].picked = 1
                   => ~(Has(completed', <<hist'[j].kind, hist'[j].key>>)
                        /\ completed'[<<hist'[j].kind, hist'[j].key>>].id = j)
       /\ \A o \in Obs :
             (observers[o].phase = "open" /\ observers'[o] # observers[o])
             => LET kk == <<observers[o].kind, observers[o].key>> IN
                /\ (~Has(active, kk) /\ ~Has(completed, kk))
                      <=> observers'[o].last = "bare"
                /\ (~Has(active, kk) /\ Has(completed, kk))
                      <=> observers'[o].last = "result"]_vars

\* One observer has received the result of a job, another the bare signal.
C6_Witness ==
    /\ \E j \in JobIds : hist[j].picked = 1 /\ ~hist[j].discarded
    /\ \E o1, o2 \in Obs :
          /\ observers[o1].phase = "closed" /\ observers[o1].last = "result"
          /\ observers[o2].phase = "closed" /\ observers[o2].last = "bare"

\* C7 as stated: a tick that finds the schedule enabled, the stored nextRunAt
\* reached and no active backup of the repository issues exactly one start.
C7_DueTickStartsOnce ==
    (tickLog.ran /\ tickLog.due) => tickLog.starts = 1

\* What the ticks do instead: no tick issues a start call, and a tick leaves
\* an enabled schedule with a nextRunAt that lies after the tick.
TickNeverStarts ==
    /\ tickLog.starts = 0
    /\ [][\A key \in Keys :
            (tickLog' # tickLog /\ schedule'.enabled) => schedule'.nextRunAt > clock]_vars

\* The instant t falls on one of the weekdays, at the time of day, of the
\* schedule under evaluation.
OnSchedule(t) ==
    /\ weekday(t) \in calc.days
    /\ t % DayLen = calc.time * TicksPerSlot

WeeklyCase ==
    /\ calc.fn = "next_run" /\ calc.done
    /\ calc.op = "compute"
    /\ calc.enabled /\ calc.type = "weekly" /\ calc.days \cap Weekdays # {}

Fri == 4
Wed == 2

\* Weekdays {Mon, Fri}, the first minute of the day, now = Wednesday one
\* minute later.
WeeklyExample ==
    /\ WeeklyCase
    /\ calc.days = {Mon, Fri} /\ calc.time = 0
    /\ calc.now = Wed * DayLen + TicksPerSlot

\* C8: for a weekly schedule with at least one weekday, computeNextRun returns
\* the earliest instant strictly after now that is on a configured weekday at
\* the configured time of day; it lies in (now, now + 7 days]; for {Mon, Fri}
\* and a Wednesday after the time of day it is the Friday of that week.
C8_WeeklyNextRun ==
    /\ WeeklyCase =>
          /\ calc.result > calc.now
          /\ calc.result <= calc.now + WeekLen
          /\ OnSchedule(calc.result)
          /\ \A t \in (calc.now + 1) .. (calc.result - 1) : ~OnSchedule(t)
    /\ WeeklyExample => calc.result = Fri * DayLen

\* The example of the claim has been computed, and it took the Friday.
C8_Witness ==
    /\ WeeklyExample
    /\ calc.result = Fri * DayLen

\* The file paths of a listing, and the signature of one of them.
FilesOf(L) == {i.path : i \in {j \in L : j.path # "" /\ ~EndsWithSeparator(j.path)}}
SigOf(L, p) ==
    LET item == CHOOSE i \in L : i.path = p IN IF item.raw = "" THEN p ELSE item.raw

Range(seq) == {seq[n] : n \in 1 .. Len(seq)}

\* The previous listing the summary had: empty when there is no previous
\* revision or its listing failed.
PrevListing ==
    IF calc.out.previousRevision # None /\ calc.prevOk THEN calc.prevFiles ELSE {}

Compared == calc.fn = "diff" /\ calc.done /\ calc.out.listed

DiffExample ==
    /\ Compared
    /\ calc.out.previousRevision # None /\ calc.prevOk
    /\ calc.latestFiles = {[path |-> "a", raw |-> "h1"], [path |-> "b", raw |-> "h2"]}
    /\ calc.prevFiles = {[path |-> "a", raw |-> "h1"], [path |-> "c", raw |-> "h3"]}

\* C9: with directory entries left out, new is the paths of latest that are
\* not in previous, deleted the paths of previous that are not in latest,
\* changed the paths of both whose signatures differ; the three are pairwise
\* disjoint, the counts are their sizes, unchanged says all three are empty;
\* latest {a:h1, b:h2} against previous {a:h1, c:h3} gives new {b}, deleted {c}.
C9_DiffSets ==
    /\ Compared =>
          LET latest == calc.latestFiles
              prev == PrevListing
              New == FilesOf(latest) \ FilesOf(prev)
              Deleted == FilesOf(prev) \ FilesOf(latest)
              Changed == {p \in FilesOf(latest) \cap FilesOf(prev) :
                             SigOf(latest, p) # SigOf(prev, p)}
              out == calc.out
          IN /\ Range(out.newPaths) = New
             /\ Range(out.deletedPaths) = Deleted
             /\ Range(out.changedPaths) = Changed
             /\ Range(out.newPaths) \cap Range(out.deletedPaths) = {}
             /\ Range(out.newPaths) \cap Range(out.changedPaths) = {}
             /\ Range(out.deletedPaths) \cap Range(out.changedPaths) = {}
             /\ out.new = Cardinality(New)
             /\ out.deleted = Cardinality(Deleted)
             /\ out.changed = Cardinality(Changed)
             /\ out.unchanged <=> (New \cup Deleted \cup Changed = {})
    /\ DiffExample =>
          /\ calc.out.newPaths = <<"b">>
          /\ calc.out.deletedPaths = <<"c">>
          /\ calc.out.changedPaths = <<>>
          /\ ~calc.out.unchanged

\* A summary over listings that hold a new, a deleted and a changed file and
\* a directory entry.
C9_Witness ==
    /\ Compared
    /\ calc.out.new = 1 /\ calc.out.deleted = 1 /\ calc.out.changed = 1
    /\ \E i \in calc.latestFiles : EndsWithSeparator(i.path)

\* The revision supplied from before the operation is still the latest one.
SameRevision ==
    /\ calc.fn = "diff" /\ calc.done
    /\ calc.snapshotsOk /\ calc.revisions # {}
    /\ calc.pre_latest_revision # None
    /\ calc.pre_latest_revision = Max(calc.revisions)

\* C10: when the revision supplied from before the operation equals the latest
\* revision after it, the summary is unchanged with all three counts zero and
\* empty samples, and no file listing has been asked for.
C10_UnchangedShortCircuit ==
    SameRevision =>
        /\ calc.out.ok /\ calc.out.unchanged
        /\ calc.out.new = 0 /\ calc.out.changed = 0 /\ calc.out.deleted = 0
        /\ calc.out.samples = [new |-> <<>>, changed |-> <<>>, deleted |-> <<>>]
        /\ calc.out.listCalls = 0

\* The short cut was taken although the listings on offer differ.
C10_Witness ==
    /\ SameRevision
    /\ Cardinality(calc.revisions) = 2
    /\ calc.latestOk /\ calc.prevOk
    /\ FilesOf(calc.latestFiles) # FilesOf(calc.prevFiles)
    /\ calc.out.unchanged /\ calc.out.listCalls = 0

\* A next run has been computed for an enabled schedule, by
\* compute_next_run_for_schedule itself or inside normalize_schedule_config.
EnabledCase ==
    /\ calc.fn = "next_run" /\ calc.done
    /\ calc.enabled

\* C11: for every enabled schedule and every instant now, the next run that is
\* computed, and that normalization stores as nextRunAt, is strictly later
\* than now.
C11_NextRunInFuture ==
    EnabledCase => calc.result # None /\ calc.result > calc.now

\* Normalization at the very instant a daily schedule names: the stored next
\* run is that time of day one day later.
C11_Witness ==
    /\ EnabledCase /\ calc.op = "normalize"
    /\ calc.stored_type = "daily"
    /\ calc.now = base_today(calc.now, calc.time)
    /\ calc.result = calc.now + DayLen

\* Every nextRunAt an update of the schedule or a scheduler tick writes for an
\* enabled schedule is later than the clock of that step.
NextRunPersistedInFuture ==
    [][schedule'.nextRunAt # schedule.nextRunAt /\ schedule'.enabled
          => schedule'.nextRunAt > clock]_vars

DailyCase ==
    /\ calc.fn = "next_run" /\ calc.done
    /\ calc.enabled /\ calc.type = "daily"

\* Today's date at the configured time of day.
TodayAtTime == calc.now - (calc.now % DayLen) + calc.time * TicksPerSlot

\* C12: for a daily schedule, computeNextRun returns today's date at the
\* configured time of day if that instant is strictly after now, and the same
\* time of day on the next day otherwise; the result lies in (now, now + 1 day].
C12_DailyNextRun ==
    DailyCase =>
        /\ calc.result = IF TodayAtTime > calc.now THEN TodayAtTime
                         ELSE TodayAtTime + DayLen
        /\ calc.result > calc.now
        /\ calc.result <= calc.now + DayLen

\* A daily schedule whose time of day is still to come today: the next run
\* is today.
C12_Witness ==
    /\ DailyCase /\ calc.op = "compute"
    /\ TodayAtTime > calc.now
    /\ calc.result = TodayAtTime
    /\ calc.result < calc.now + DayLen

\* The weekday tokens of the input that the function applied takes as valid:
\* compute_next_run_for_schedule the keys of SCHEDULE_WEEKDAY_INDEX,
\* normalize_schedule_config also their longer or upper-case spellings.
ValidDays ==
    IF calc.op = "normalize"
    THEN {d \in calc.days : d \in Weekdays \/ d = LongTue}
    ELSE {d \in calc.days : d \in Weekdays}

\* A weekly schedule whose weekday list holds no valid weekday token.
NoWeekdayCase ==
    /\ calc.fn = "next_run" /\ calc.done
    /\ calc.enabled /\ calc.type = "weekly"
    /\ ValidDays = {}

\* The instant t is a Monday at the configured time of day.
OnMonday(t) ==
    /\ weekday(t) = Mon
    /\ t % DayLen = calc.time * TicksPerSlot

\* C13: a weekly schedule with an empty weekday set, or with only invalid
\* weekday tokens, behaves like the weekly schedule with weekdays {Monday}:
\* computeNextRun returns what it returns for {Monday}, the first Monday at
\* the configured time of day after now, and normalization stores days = [mon].
C13_EmptyWeekdaysMeanMonday ==
    NoWeekdayCase =>
        /\ calc.result =
               compute_next_run_for_schedule(
                   [enabled |-> TRUE, type |-> "weekly", time |-> calc.time,
                    days |-> {Mon}], calc.now)
        /\ calc.result > calc.now
        /\ OnMonday(calc.result)
        /\ \A t \in (calc.now + 1) .. (calc.result - 1) : ~OnMonday(t)
        /\ calc.op = "normalize" => calc.stored_days = {Mon}

\* Normalization of a weekly schedule whose only weekday token is invalid, on
\* a day that is not a Monday: days = [mon] is stored and the next run is the
\* coming Monday.
C13_Witness ==
    /\ NoWeekdayCase /\ calc.op = "normalize"
    /\ calc.days = {InvalidDay}
    /\ weekday(calc.now) # Mon
    /\ calc.stored_days = {Mon}
    /\ OnMonday(calc.result)

\* C14: once a scheduler tick has run, a disabled schedule has nextRunAt = null,
\* and a tick that found the schedule disabled has issued no start call.
C14_DisabledNeverRuns ==
    /\ (tickLog.ran /\ ~schedule.enabled) => schedule.nextRunAt = None
    /\ (tickLog.ran /\ ~tickLog.enabled) => tickLog.starts = 0

\* A tick has found a disabled schedule that still carried a nextRunAt, has
\* cleared it and has started nothing.
C14_Witness ==
    /\ tickLog.ran /\ ~tickLog.enabled /\ tickLog.changed
    /\ ~schedule.enabled /\ schedule.nextRunAt = None
    /\ tickLog.starts = 0
    /\ active = EmptyMap /\ tasks = {}

\* A summary has been computed and it is a successful one.
SummaryOk == calc.fn = "diff" /\ calc.done /\ calc.out.ok

\* C15: in every successfully computed summary, unchanged is true exactly when
\* the new, changed and deleted counts are all zero, the summary of an
\* operation that produced no new revision included.
C15_UnchangedIffNoCounts ==
    SummaryOk =>
        (calc.out.unchanged <=>
            (calc.out.new = 0 /\ calc.out.changed = 0 /\ calc.out.deleted = 0))

\* Two listings with the same files and signatures have been compared: the
\* summary is unchanged with all three counts zero.
C15_Witness ==
    /\ SummaryOk /\ calc.out.listed
    /\ calc.out.previousRevision # None /\ calc.prevOk
    /\ FilesOf(calc.latestFiles) # {}
    /\ calc.out.unchanged
    /\ calc.out.new = 0 /\ calc.out.changed = 0 /\ calc.out.deleted = 0

\* The position of a path in ascending sorted order.
PathRank(p) == CHOOSE n \in 1 .. Len(AllPathOrder) : AllPathOrder[n] = p

\* The sample is the first min(SampleLimit, count) paths of the set, ascending.
IsSampleOf(sample, set) ==
    /\ Len(sample) = IF Cardinality(set) < SampleLimit THEN Cardinality(set)
                     ELSE SampleLimit
    /\ Len(sample) <= SampleLimit
    /\ Range(sample) \subseteq set
    /\ \A m, n \in 1 .. Len(sample) : m < n => PathRank(sample[m]) < PathRank(sample[n])
    /\ \A p \in set \ Range(sample) :
          \A n \in 1 .. Len(sample) : PathRank(sample[n]) < PathRank(p)

\* C16: for each of new, changed and deleted, the sample is the first
\* min(12, count) paths of the result set in ascending sorted order: it never
\* has more than 12 entries and never holds a path outside its set.
C16_SamplesAreSortedPrefixes ==
    Compared =>
        LET latest == calc.latestFiles
            prev == PrevListing
            New == FilesOf(latest) \ FilesOf(prev)
            Deleted == FilesOf(prev) \ FilesOf(latest)
            Changed == {p \in FilesOf(latest) \cap FilesOf(prev) :
                           SigOf(latest, p) # SigOf(prev, p)}
        IN /\ IsSampleOf(calc.out.samples.new, New)
           /\ IsSampleOf(calc.out.samples.changed, Changed)
           /\ IsSampleOf(calc.out.samples.deleted, Deleted)

\* More than 12 paths have changed: the sample is cut to the first 12, and the
\* last of them sorts before a changed path that was left out.
C16_Witness ==
    /\ Compared
    /\ calc.out.changed > SampleLimit
    /\ Len(calc.out.samples.changed) = SampleLimit
    /\ \E p \in Range(calc.out.changedPaths) :
          /\ p \notin Range(calc.out.samples.changed)
          /\ PathRank(calc.out.samples.changed[SampleLimit]) < PathRank(p)

\* C17: a start call that is rejected, 404 for an unknown key and 409 for a key
\* with an active job, changes nothing: the active entries with all their
\* fields, the process handles, the stored results, the cancel flags and the
\* created tasks are as before the call.
C17_RejectedStartChangesNothing ==
    [][\A kind \in Kinds, key \in AllKeys :
          (/\ Answered /\ resp'.op = "start"
           /\ resp'.kind = kind /\ resp'.key = key
           /\ (key \notin Keys \/ Has(active, <<kind, key>>)))
          => /\ resp'.code = IF key \notin Keys THEN 404 ELSE 409
             /\ UNCHANGED <<active, processes, completed, cancelFlags, tasks,
                            nextId, loop>>]_vars

\* A start was rejected with 409 for a restore whose active entry already
\* carried a cancel request and its output line: the entry is still so.
C17_Witness ==
    /\ resp.op = "start" /\ resp.code = 409 /\ resp.kind = "restore"
    /\ Has(active, <<"restore", resp.key>>)
    /\ active[<<"restore", resp.key>>].cancelRequested
    /\ active[<<"restore", resp.key>>].outputLines # <<>>
    /\ active[<<"restore", resp.key>>].trigger = "manual"

\* The task that holds the loop is a backup whose engine could not be spawned,
\* and it is about to store its result.
SpawnFailed ==
    /\ loop.busy /\ loop.kind = "backup"
    /\ loop.outcome = "spawn_error"

\* C18: when the engine binary cannot be spawned, the start call has already
\* answered success, the task raises nothing and registers no process; it
\* stores a result with exit code -1 and the text of the spawn error and
\* clears the active entry of the key.
C18_SpawnFailureIsAResult ==
    /\ [][(Answered /\ resp'.op = "start" /\ resp'.code = 200)
             => /\ ~loop'.busy
                /\ \E t \in tasks' \ tasks : t.kind = resp'.kind /\ t.key = resp'.key]_vars
    /\ [](SpawnFailed =>
             /\ loop.pc = "post" /\ ~loop.raised
             /\ loop.code = -1 /\ loop.stderr = "spawn"
             /\ ~Has(processes, LoopKey))
    /\ [][(SpawnFailed /\ ~loop'.busy)
             => /\ Has(completed', LoopKey)
                /\ completed'[LoopKey].id = loop.id
                /\ completed'[LoopKey].code = -1
                /\ completed'[LoopKey].stderr = "spawn"
                /\ ~Has(active', LoopKey)
                /\ ~Has(processes', LoopKey)
                /\ resp' = resp]_vars

\* The result of a backup whose engine could not be spawned is stored: code -1
\* with the spawn error, the active entry gone, after a start answered 200.
C18_Witness ==
    /\ ~loop.busy
    /\ resp.op = "start" /\ resp.code = 200 /\ resp.kind = "backup"
    /\ Has(completed, <<"backup", resp.key>>)
    /\ completed[<<"backup", resp.key>>].code = -1
    /\ completed[<<"backup", resp.key>>].stderr = "spawn"
    /\ completed[<<"backup", resp.key>>].hasCanceled
    /\ ~Has(active, <<"backup", resp.key>>)

\* The job has ended as far as the maps say: the active entry of its key is
\* not this job's any more and the stored result of the key is this job's.
Recorded(j) ==
    LET kk == <<hist[j].kind, hist[j].key>>
    IN /\ ~(Has(active, kk) /\ active[kk].id = j)
       /\ Has(completed, kk) /\ completed[kk].id = j

\* C19: every accepted start leads to a state in which the active entry of the
\* key has been removed and the job's result is stored under the key, whatever
\* the preparation, the engine, the replication, the change summary and the
\* configuration store do, the engine process ending.
C19_AcceptedJobEnds ==
    \A j \in JobIds : (hist[j].state = "pending") ~> Recorded(j)

\* A backup whose preparation raised has ended: its result is stored and no
\* active entry is left.
C19_Witness ==
    \E j \in JobIds :
        /\ hist[j].state = "finished" /\ hist[j].kind = "backup"
        /\ Recorded(j)
        /\ ~completed[<<"backup", hist[j].key>>].hasCanceled
        /\ completed[<<"backup", hist[j].key>>].stderr = "unspecified"
        /\ ~Has(active, <<"backup", hist[j].key>>)

\* The ways a change summary fails: the snapshot listing fails or names no
\* revision, the listing of the created revision fails, or a call raises.
FailedSummaryPaths == {"snapshots_failed", "no_revisions", "latest_failed", "raise"}

\* C20: a change summary is computed only in a backup task whose exit code is
\* 0; when the snapshot listing or the listing of the created revision fails,
\* or the summary raises, the task still stores its result with the exit code
\* of the engine and removes the active entry, the summary being the
\* unavailable one (ok = false) or absent.
C20_SummaryNeverBlocksTheJob ==
    /\ [](loop.busy /\ (loop.pc = "summary" \/ loop.summary # "none")
             => loop.kind = "backup" /\ loop.code = 0 /\ ~loop.raised)
    /\ [](\A kk \in DOMAIN completed :
             completed[kk].backupSummary # "none"
                => kk[1] = "backup" /\ completed[kk].code = 0)
    /\ [][(loop.busy /\ loop.pc = "summary" /\ loop' # loop)
             => /\ loop'.busy /\ loop'.pc = "post"
                /\ loop'.code = loop.code /\ ~loop'.raised
                /\ UNCHANGED <<completed, processes, tasks>>]_vars
    /\ [][(loop.busy /\ loop.summary \in FailedSummaryPaths /\ ~loop'.busy)
             => /\ Has(completed', LoopKey)
                /\ completed'[LoopKey].id = loop.id
                /\ completed'[LoopKey].code = loop.code
                /\ completed'[LoopKey].backupSummary =
                      IF loop.summary = "raise" THEN "none" ELSE "unavailable"
                /\ ~Has(active', LoopKey)]_vars

\* A backup whose engine ended with code 0 and whose change summary could not
\* be computed has stored its result: code 0, marked as a success, with the
\* unavailable summary.
C20_Witness ==
    /\ ~loop.busy
    /\ Has(completed, <<"backup", "r1">>)
    /\ completed[<<"backup", "r1">>].code = 0
    /\ completed[<<"backup", "r1">>].backupSummary = "unavailable"
    /\ completed[<<"backup", "r1">>].hasCanceled
    /\ ~Has(active, <<"backup", "r1">>)

\* When only the listing of the previous revision fails, the summary is
\* computed against an empty previous listing and is an ok one.
PreviousListingFailureIsNoFailure ==
    (loop.busy /\ loop.summary = "previous_failed")
        => Has(active, LoopKey) /\ active[LoopKey].backupSummary = "ok"

\* A login request was answered in this step.
LoginAnswered == authLog'.turn # authLog.turn

\* The lockout that the fifth wrong password of a window set off for key is
\* still running.
LockoutRunning(key) ==
    /\ authLog.win[key].lockedAt # 0
    /\ time_time < authLog.win[key].lockedAt + LOGIN_LOCKOUT_SECONDS

\* C21: the first four wrong passwords a client key sends inside one failure
\* window are answered as not blocked, the fifth as blocked with a positive
\* retry-after; from then until the lockout period has elapsed the lockout
\* status of that key is allowed = false; and a login of one key changes the
\* lockout status of no other key.
C21_FifthFailureLocksOut ==
    /\ [][(LoginAnswered /\ authLog'.op = "failure")
            => LET n == authLog'.win[authLog'.key].n IN
               /\ n <= LOGIN_MAX_FAILED_ATTEMPTS - 1 => ~authLog'.blocked
               /\ n = LOGIN_MAX_FAILED_ATTEMPTS
                     => authLog'.blocked /\ authLog'.retryAfterSeconds > 0]_vars
    /\ [](\A key \in ClientKeys :
            LockoutRunning(key)
               => ~get_login_lockout_status(login_failures, key, time_time).allowed)
    /\ [][LoginAnswered
            => \A key \in ClientKeys \ {authLog'.key} :
                  get_login_lockout_status(login_failures', key, time_time')
                     = get_login_lockout_status(login_failures, key, time_time)]_vars

\* One client key is locked out by its fifth wrong password, has since been
\* turned away, and meanwhile another key has had a wrong password answered
\* as not blocked.
C21_Witness ==
    /\ authLog.op = "failure" /\ ~authLog.blocked /\ authLog.key = "ip1"
    /\ LockoutRunning("unknown")
    /\ authLog.win["unknown"].n = LOGIN_MAX_FAILED_ATTEMPTS
    /\ time_time > authLog.win["unknown"].lockedAt

CookieCase == calc.fn = "cookie" /\ calc.done

\* The scheme is https, in whatever case and with whatever blanks around it.
IsHttps(t) == t \in {"https", "HTTPS", " https "}

\* The first entry of the X-Forwarded-Proto header is https.
FirstForwardedIsHttps(header) ==
    header # NoHeader /\ IsHttps(header[1])

\* C22: should_use_secure_cookie is true in mode always, false in mode never,
\* and in mode auto true exactly when the request scheme is https or the
\* first X-Forwarded-Proto entry is https; a stored mode that is missing or
\* unknown counts as auto.
C22_SecureCookieByMode ==
    CookieCase =>
        /\ calc.mode \in {"auto", "always", "never"}
        /\ calc.stored_mode \in {"auto", "always", "never"} => calc.mode = calc.stored_mode
        /\ calc.mode = "always" => calc.result
        /\ calc.mode = "never" => ~calc.result
        /\ calc.mode = "auto"
              => (calc.result <=> (IsHttps(calc.request_scheme)
                                   \/ FirstForwardedIsHttps(calc.x_forwarded_proto)))

\* Mode auto behind a proxy chain: plain http to the server, and a header
\* whose first entry is https and whose second is http.
C22_Witness ==
    /\ CookieCase
    /\ calc.stored_mode = "auto"
    /\ calc.request_scheme = "http"
    /\ calc.x_forwarded_proto = <<"https", "http">>
    /\ calc.result

MergeCase == calc.fn = "merge" /\ calc.done

\* The override of a channel has an "enabled" key whose value is a true one.
ExplicitlyEnabled(channel) ==
    channel.enabled \in {"True", "on"}

\* C23: a channel is enabled in the merged configuration exactly when the
\* override of the repository enables it, whatever the global flag says; the
\* global SMTP host is the merged one, and the global healthchecks URL is the
\* merged one unless the repository gives a URL of its own.
C23_OnlyTheRepositoryEnables ==
    MergeCase =>
        /\ calc.merged.healthchecks.enabled <=> ExplicitlyEnabled(calc.repo_cfg.healthchecks)
        /\ calc.merged.email.enabled <=> ExplicitlyEnabled(calc.repo_cfg.email)
        /\ calc.merged.email.smtpHost = calc.global_cfg.email.smtpHost
        /\ calc.repo_cfg.healthchecks.url \in {Absent, ""}
              => calc.merged.healthchecks.url = calc.global_cfg.healthchecks.url
        /\ calc.repo_cfg.healthchecks.url \in {"https://hc-backup", " https://hc-backup "}
              => calc.merged.healthchecks.url = "https://hc-backup"

\* Both channels enabled globally, a repository that enables only e-mail and
\* names no URL: only e-mail is enabled, and both transports are the global ones.
C23_Witness ==
    /\ MergeCase
    /\ calc.global_cfg.healthchecks.enabled /\ calc.global_cfg.email.enabled
    /\ calc.repo_cfg.healthchecks.enabled = Absent
    /\ calc.repo_cfg.email.enabled = "True"
    /\ calc.repo_cfg.healthchecks.url = Absent
    /\ calc.global_cfg.healthchecks.url = "https://hc"
    /\ calc.global_cfg.email.smtpHost = "smtp.local"
    /\ ~calc.merged.healthchecks.enabled /\ calc.merged.email.enabled
    /\ calc.merged.healthchecks.url = "https://hc"
    /\ calc.merged.email.smtpHost = "smtp.local"

\* The engine process of the job that holds the loop has been spawned and has
\* not exited: exec is between Popen and process.wait().
EngineRunning == loop.busy /\ loop.pc \in {"engine", "copy"}

\* C25 as stated: while the engine process of a job runs, a scheduler tick, a
\* cancel request and a poll of every open progress stream can take a step.
C25_LoopFreeWhileEngineRuns ==
    EngineRunning =>
        /\ ENABLED (\E key \in Keys : scheduler_tick(key))
        /\ ENABLED (\E kind \in StreamKinds, key \in AllKeys, term \in {"ok", "failed"} :
                       Cancel(kind, key, term))
        /\ ENABLED (\E kind \in StreamKinds, key \in AllKeys : Start(kind, key, "manual"))
        /\ \A o \in Obs : observers[o].phase = "open" => ENABLED ObsPoll(o)

\* What the code does instead: from the spawn of the engine process to the
\* end of the task nothing but the task itself takes a step.
EngineRunHoldsLoop ==
    loop.busy =>
        /\ ~ENABLED (\E key \in Keys : scheduler_tick(key))
        /\ ~ENABLED (\E kind \in StreamKinds, key \in AllKeys, term \in {"ok", "failed"} :
                        Cancel(kind, key, term))
        /\ ~ENABLED (\E kind \in StreamKinds, key \in AllKeys : Start(kind, key, "manual"))
        /\ ~ENABLED (\E o \in Obs : ObsPoll(o) \/ \E kind \in StreamKinds, key \in Keys :
                                                      ObsOpen(o, kind, key))

\* C26 as stated: a stored result says canceled only if a cancel request has
\* terminated the engine process of that job, and never for a job whose
\* engine process ended with exit code 0.
C26_CancelledMeansTerminated ==
    \A kk \in DOMAIN completed :
        completed[kk].canceled
           => /\ hist[completed[kk].id].terminated
              /\ completed[kk].code # 0

\* What the code does instead: a stored result says canceled exactly when a
\* cancel request has marked the job's entry, and the restore requests mark
\* it before they look for the process.
CancelledMeansRequested ==
    [][\A kk \in DOMAIN completed' :
          (~Has(completed, kk) \/ completed[kk].id # completed'[kk].id)
          => (completed'[kk].canceled
                <=> (Has(active, kk) /\ active[kk].id = completed'[kk].id
                     /\ completed'[kk].hasCanceled
                     /\ WasCancelled(kk[1], kk[2])))]_vars

\* The task that holds the loop ends in this step: its active entry goes and
\* its result is stored, so the only event a stream can still yield for the
\* job is the final one.
JobCompletes == loop.busy /\ ~loop'.busy

\* C27 as stated: when a job completes, every observer that has followed it
\* and no other job has been handed all its outputLines as running output.
C27_AllLinesBeforeDone ==
    [][JobCompletes
          => \A o \in Obs :
                (OnOneJob(o) /\ <<observers[o].kind, observers[o].key>> = LoopKey)
                => observers[o].delivered = active[LoopKey].outputLines]_vars

\* What the code does instead: no line the engine wrote is ever handed out as
\* running output; the lines a stream delivers are those of cancel requests.
EngineLinesNeverStreamed ==
    \A o \in Obs : \A i \in 1 .. Len(observers[o].delivered) :
        observers[o].delivered[i] = CancelLine

\* The jobs of (kind, key) that a start call has been accepted for.
JobsOf(kind, key) ==
    {j \in JobIds : hist[j].state # "unused" /\ hist[j].kind = kind /\ hist[j].key = key}

\* A job of (kind, key) has been started and the result of the latest one has
\* not been handed to a stream.
ResultOutstanding(kind, key) ==
    /\ JobsOf(kind, key) # {}
    /\ hist[Max(JobsOf(kind, key))].picked = 0

\* C28: whenever the event loop is free for another task, a key with a started
\* job whose result has not been picked up is in the active map or in the
\* completed map and not in both.
C28_ActiveXorCompleted ==
    ~loop.busy =>
        \A kind \in StreamKinds, key \in Keys :
            ResultOutstanding(kind, key)
               => (Has(active, <<kind, key>>) <=> ~Has(completed, <<kind, key>>))

\* The second backup of r1 has finished and its result waits to be picked up,
\* the result of the first having been dropped by the second start.
C28_Witness ==
    /\ ~loop.busy
    /\ Has(completed, <<"backup", "r1">>) /\ completed[<<"backup", "r1">>].id = 2
    /\ ~Has(active, <<"backup", "r1">>)
    /\ hist[1].discarded /\ hist[2].picked = 0

\* C29: a process handle is registered for a key only while the job of that
\* key is active and after its task has spawned an engine process; a job
\* whose task has not yet spawned one has no handle; and the step that removes
\* the active entry of a job leaves no handle for its key.
C29_HandleOnlyForSpawnedJob ==
    /\ [](\A kk \in DOMAIN processes :
             /\ Has(active, kk)
             /\ loop.busy /\ LoopKey = kk /\ active[kk].id = loop.id
             /\ loop.outcome = "spawned")
    /\ [](\A t \in tasks : ~Has(processes, <<t.kind, t.key>>))
    /\ []((loop.busy /\ loop.pc = "begin") => ~Has(processes, LoopKey))
    /\ [][\A kk \in DOMAIN active :
             ~Has(active', kk) => ~Has(processes', kk)]_vars

\* The replication process of a backup is running under its handle while a
\* restore of the same repository, just started, waits without one.
C29_Witness ==
    /\ loop.busy /\ loop.pc = "copy" /\ loop.kind = "backup"
    /\ Has(processes, LoopKey) /\ processes[LoopKey] = "copy"
    /\ \E t \in tasks : t.kind = "restore" /\ t.key = loop.key
    /\ Has(active, <<"restore", loop.key>>)
    /\ ~Has(processes, <<"restore", loop.key>>)

\* The active entry of kk belongs to the same job before and after the step.
SameJob(kk) ==
    Has(active, kk) /\ Has(active', kk) /\ active[kk].id = active'[kk].id

\* The step has left outputLines of kk one line longer, the lines before it
\* unchanged.
ExtendedByOne(kk) ==
    /\ Len(active'[kk].outputLines) = Len(active[kk].outputLines) + 1
    /\ IsPrefix(active[kk].outputLines, active'[kk].outputLines)

LastLine(lines) == lines[Len(lines)]

\* The step is a call of the line callback by the task of kk, with a line of
\* the engine that is not blank.
WrittenByEngine(kk) ==
    /\ loop.busy /\ LoopKey = kk /\ loop.pc \in {"engine", "copy"} /\ loop' = loop
    /\ LastLine(active'[kk].outputLines) = LineText(Len(active'[kk].outputLines))

\* The step is a cancel request for kk, which has put its marker line.
WrittenByCancel(kk) ==
    /\ ~loop.busy /\ Answered /\ resp'.op = "cancel"
    /\ <<resp'.kind, resp'.key>> = kk
    /\ LastLine(active'[kk].outputLines) = CancelLine
    /\ active'[kk].cancelRequested

TickStep == \E key \in Keys : scheduler_tick(key)

\* C31: a scheduler tick never calls start for a repository that has an active
\* backup at the time of the tick, even when its stored nextRunAt has passed:
\* it makes no start call, creates no job, records neither a queued run nor an
\* error in the schedule, and leaves the schedule enabled with a next run to be
\* evaluated by the following tick.
C31_NoStartBehindActiveJob ==
    /\ []((tickLog.ran /\ tickLog.active)
             => (tickLog.calls = 0 /\ tickLog.starts = 0 /\ ~tickLog.failed))
    /\ [][(TickStep /\ Has(active, <<"backup", "r1">>))
             => /\ tickLog'.ran /\ tickLog'.active
                /\ active' = active /\ tasks' = tasks /\ nextId' = nextId
                /\ schedule'.lastRunStatus = schedule.lastRunStatus
                /\ schedule'.lastRunAt = schedule.lastRunAt
                /\ schedule'.enabled = schedule.enabled
                /\ schedule.enabled => schedule'.nextRunAt # None]_vars

\* A tick has run while a backup of the repository was waiting to begin and
\* the stored nextRunAt had passed; the backup is still the only job.
C31_Witness ==
    /\ tickLog.ran /\ tickLog.enabled /\ tickLog.active
    /\ tickLog.stored = "passed"
    /\ Has(active, <<"backup", "r1">>)
    /\ nextId = 2
    /\ schedule.lastRunStatus = "none"

\* No tick reaches its start call, so none sees a start call fail: the
\* nextRunAt a tick works with has just been recomputed from the clock.
TickNeverCalls == tickLog.calls = 0 /\ ~tickLog.failed

\* C34: for an enabled schedule whose stored nextRunAt is unset or does not
\* parse, the tick computes nextRunAt from now (an instant after now), marks
\* the store as changed so that it is written, and makes no start call in
\* that tick.
C34_UnsetNextRunIsComputedNotFired ==
    /\ []((tickLog.ran /\ tickLog.enabled /\ tickLog.stored = "unset")
             => (tickLog.calls = 0 /\ tickLog.starts = 0 /\ tickLog.changed))
    /\ [][(TickStep /\ schedule.enabled /\ StoredNextRun(schedule, clock) = "unset")
             => /\ tickLog'.stored = "unset"
                /\ schedule'.enabled
                /\ parse_iso_datetime(schedule'.nextRunAt) # None
                /\ schedule'.nextRunAt > clock
                /\ schedule'.nextRunAt = compute_next_run_for_schedule(schedule', clock)
                /\ active' = active /\ tasks' = tasks /\ nextId' = nextId]_vars

\* A tick has met an enabled schedule stored without a usable nextRunAt at the
\* very minute the schedule names, has started nothing and has left a
\* nextRunAt one day on.
C34_Witness ==
    /\ tickLog.ran /\ tickLog.enabled /\ tickLog.stored = "unset"
    /\ tickLog.changed /\ tickLog.calls = 0
    /\ clock = base_today(clock, schedule.time)
    /\ schedule.nextRunAt = clock + DayLen
    /\ nextId = 1

\* The summary came to its comparison: the snapshot listing succeeded and
\* named a revision, the operation made a new revision, and the listing of
\* the created revision succeeded.
DiffReached ==
    /\ calc.fn = "diff" /\ calc.done
    /\ calc.snapshotsOk /\ calc.revisions # {}
    /\ ~(calc.pre_latest_revision # None
         /\ calc.pre_latest_revision = Max(calc.revisions))
    /\ calc.latestOk

\* The created revision is the only one, so there is none to compare it with.
NoPreviousRevision == Cardinality(calc.revisions) < 2

\* C35: when the summary comes to its comparison and there is no previous
\* revision, or the file listing of the previous revision failed, previous
\* counts as empty: the summary is available, every file of the latest listing
\* is new (directory entries left out), and nothing is changed or deleted.
C35_NoPreviousMeansAllNew ==
    (DiffReached /\ (NoPreviousRevision \/ ~calc.prevOk))
       => /\ calc.out.ok
          /\ calc.out.new = Cardinality(FilesOf(calc.latestFiles))
          /\ Range(calc.out.newPaths) = FilesOf(calc.latestFiles)
          /\ calc.out.changed = 0 /\ calc.out.deleted = 0
          /\ calc.out.unchanged <=> (FilesOf(calc.latestFiles) = {})

\* The listing of the previous revision failed where it would have shown a
\* changed and a deleted file: the two files of the created revision are new.
C35_Witness ==
    /\ DiffReached /\ ~NoPreviousRevision /\ ~calc.prevOk
    /\ calc.latestFiles = {[path |-> "a", raw |-> "h1"], [path |-> "b", raw |-> "h2"]}
    /\ calc.prevFiles = {[path |-> "a", raw |-> "h2"], [path |-> "c", raw |-> "h3"]}
    /\ calc.out.ok /\ calc.out.new = 2 /\ calc.out.newPaths = <<"a", "b">>
    /\ calc.out.previousRevision # None

\* The values of lastRunStatus: unset, or what the tick and a finished backup
\* write for a queued, a successful and a failed run.
RunStatuses == {"none", "queued", "success", "error"}

\* C36: in every reachable state the schedule's lastRunStatus is unset or one
\* of queued, success, error, whatever ticks, schedule updates, backups and
\* cancel requests have taken place.
C36_LastRunStatusInEnum == schedule.lastRunStatus \in RunStatuses

\* Two backups have finished, the later one with an error, ticks have run on
\* the enabled schedule, and the failed run is what the schedule shows.
C36_Witness ==
    /\ tickLog.ran /\ tickLog.enabled
    /\ hist[1].state = "finished" /\ hist[2].state = "finished"
    /\ schedule.lastRunStatus = "error"
    /\ schedule.lastRunAt = clock /\ clock > 0

\* A cancel request for a job of the kind has just been answered 409.
CancelRefused(kind) ==
    Answered /\ resp'.op = "cancel" /\ resp'.code = 409 /\ resp'.kind = kind

\* C37 as stated: a cancel request that is answered 409 leaves the job as it
\* was, for backups, repository restores and storage restores alike:
\* cancelRequested, outputLines and lastOutput of the active entry, and the
\* cancel flag that the result is computed from, do not change.
C37_RefusedCancelChangesNothing ==
    [][\A kind \in Kinds :
          CancelRefused(kind) => (active' = active /\ cancelFlags' = cancelFlags)]_vars

\* What the code does: a refused cancel leaves a backup as it was, while a
\* refused cancel of a restore of either kind has marked the entry (the flag,
\* the last output and one more output line) before it was refused.
RefusedCancelMarksRestores ==
    [][/\ CancelRefused("backup") => active' = active
       /\ \A kind \in RestoreKinds :
             CancelRefused(kind)
             => LET kk == <<kind, resp'.key>> IN
                /\ active'[kk].cancelRequested
                /\ active'[kk].lastOutput = CancelLine
                /\ active'[kk].outputLines = Append(active[kk].outputLines, CancelLine)
                /\ cancelFlags' = cancelFlags]_vars

\* The stream of observer o, open since an earlier job of its key, meets in
\* this poll a job it has not seen before.
MeetsNewJob(o) ==
    LET kk == <<observers[o].kind, observers[o].key>> IN
    /\ observers[o].phase = "open" /\ observers'[o] # observers[o]
    /\ observers[o].seen # {}
    /\ Has(active, kk) /\ active[kk].id \notin observers[o].seen

\* C38 as stated: a stream that stays open while the job of its key finishes
\* and a new job for the key is started does not skip output: the poll that
\* meets the new job delivers that job's outputLines from its first line.
C38_NewJobIsStreamedFromItsFirstLine ==
    [][\A o \in Obs :
          MeetsNewJob(o)
          => LET kk == <<observers[o].kind, observers[o].key>> IN
             observers'[o].delivered
                = observers[o].delivered \o active[kk].outputLines]_vars

\* What the code does: the cursor of the stream is kept from the earlier job,
\* so the poll delivers the new job's lines from the cursor on and the stream
\* never receives the earlier job's result, which the new start has dropped.
CursorCarriesOver ==
    [][\A o \in Obs :
          MeetsNewJob(o)
          => LET kk == <<observers[o].kind, observers[o].key>> IN
             /\ observers'[o].delivered
                   = observers[o].delivered
                        \o SubSeq(active[kk].outputLines, observers[o].sent_lines + 1,
                                  Len(active[kk].outputLines))
             /\ observers'[o].phase = "open"
             /\ \A j \in observers[o].seen : hist'[j].picked = hist[j].picked]_vars

\* C39: every key of the active-backup map is the id of a repository record
\* of the store: a start for an id the store does not hold is answered 404 and
\* registers nothing, and a delete of a repository that has an active backup
\* is answered 409 and leaves the record and the job as they were.
C39_ActiveBackupsHaveARepository ==
    /\ [](\A kk \in DOMAIN active : kk[1] = "backup" => kk[2] \in repos)
    /\ [][\A key \in AllKeys :
            (Answered /\ resp'.op = "start" /\ resp'.kind = "backup"
                /\ resp'.key = key /\ key \notin repos)
            => /\ resp'.code = 404
               /\ active' = active /\ tasks' = tasks /\ nextId' = nextId
               /\ completed' = completed]_vars
    /\ [][\A key \in AllKeys :
            (Answered /\ resp'.op = "delete" /\ resp'.key = key
                /\ Has(active, <<"backup", key>>))
            => /\ resp'.code = 409
               /\ repos' = repos /\ active' = active /\ tasks' = tasks]_vars

\* A delete of the repository has just been refused because its backup is
\* active: the record and the job are still there.
C39_Witness ==
    /\ resp.op = "delete" /\ resp.code = 409 /\ resp.key = "r1"
    /\ Has(active, <<"backup", "r1">>) /\ "r1" \in repos
    /\ hist[1].state = "finished" /\ active[<<"backup", "r1">>].id = 2

\* The repository has been deleted after its backup had finished, and a start
\* for its id has been answered 404.
RepositoryGone ==
    /\ "r1" \notin repos /\ hist[1].state = "finished" /\ hist[1].kind = "backup"
    /\ resp.op = "start" /\ resp.kind = "backup" /\ resp.key = "r1" /\ resp.code = 404

\* The cached snapshot-list and file-list entries of a repository.
RepoEntries(c, id) == {k \in DOMAIN c : is_repo_key(k, id)}

\* A backup task has just run its finally block for the repository.
BackupCleared(key) ==
    Has(active, <<"backup", key>>) /\ ~Has(active', <<"backup", key>>)

\* C40: when a backup of a repository ends, on whatever path, the step that
\* clears its active entry also removes every cached snapshot-list and
\* file-list entry of that repository and leaves every other cache entry as
\* it was; so every such entry in the cache was stored after the last finished
\* backup of its repository, and a listing answered after the backup shows a
\* value obtained after it.
C40_BackupEndInvalidatesListings ==
    /\ [][\A key \in Keys : BackupCleared(key) =>
            /\ RepoEntries(cache', key) = {}
            /\ DOMAIN cache' = DOMAIN cache \ RepoEntries(cache, key)
            /\ \A k \in DOMAIN cache' : cache'[k] = cache[k]]_vars
    /\ [](\A k \in DOMAIN cache :
            k[1] \in RepoLists => cache[k] = FinishedBackups(k[2]))
    /\ [][(Answered /\ resp'.op = "list" /\ resp'.kind \in RepoLists
                /\ resp'.code = 200)
            => cache'[remote_cache_key(resp'.kind, resp'.key)]
                   = FinishedBackups(resp'.key)]_vars

\* A backup of r1 that ended with an engine error removed both cached lists of
\* r1; the snapshot list of r2, cached before the backup, is still there, and
\* the snapshot list of r1 has since been asked of the engine again.
C40_Witness ==
    /\ hist[1].state = "finished" /\ hist[1].kind = "backup" /\ hist[1].key = "r1"
    /\ hist[1].invalidated = 2
    /\ hist[2].state = "unused"
    /\ Has(completed, <<"backup", "r1">>)
    /\ completed[<<"backup", "r1">>].code # 0
    /\ ~Has(active, <<"backup", "r1">>)
    /\ Has(cache, <<"repo-snapshots", OtherKey>>)
    /\ cache[<<"repo-snapshots", OtherKey>>] = 0
    /\ Has(cache, <<"repo-snapshots", "r1">>)
    /\ cache[<<"repo-snapshots", "r1">>] = 1
    /\ ~Has(cache, <<"repo-files", "r1">>)
    /\ resp.op = "list" /\ resp.kind = "repo-snapshots" /\ resp.key = "r1"
    /\ resp.code = 200

====
